---- MODULE Spec2Model ----
(***************************************************************************)
(* A model of the account store (services/config_manager.py), the sign-in  *)
(* and token supplier (services/auth.py, services/ocr.py) and the retrying *)
(* OCR pipeline (services/ocr.py) of qwen-ocr.                             *)
(*                                                                         *)
(* Time is the value time.time() returns, in whole seconds.  Coroutines    *)
(* run on one asyncio loop: a block of code between two awaits that really *)
(* suspend is one action.  asyncio.Lock.acquire() on a free lock does not  *)
(* suspend, and no mutator holds _lock across a suspension, so every       *)
(* mutator of the store is one action.                                     *)
(***************************************************************************)
EXTENDS Integers, Sequences, FiniteSets, TLC

(***************************************************************************)
(* Bounds of the model.                                                    *)
(***************************************************************************)
MaxTicks == 3        \* clock advances per behaviour
MaxOps == 2          \* requests and faults (store operations, logins, token requests, file edits, restarts, I/O errors) per behaviour
TokenLife == 5       \* seconds a token the provider issues stays unexpired
MaxAmpFaults == 33  \* failing answers of the remote services to the request whose retries are counted
MaxFaults == 3       \* failing answers of the remote services to a recognition request per behaviour
MaxSignins == 2      \* sign-ins a recognition request makes per behaviour
MaxLines == 3        \* lines of one streamed completion response
MaxTextLen == 4      \* characters of an accumulated text, all combinations taken
MaxImages == 11      \* images of the largest archive submitted
MaxSaveFaults == 2   \* writes of task.json that fail per behaviour
MaxOpenWrites == 2   \* writes of task.json under way (file opened, not yet closed) at a time
MaxRacingImages == 3 \* images of the largest archive whose task sees a write of task.json fail or two of them overlap

(***************************************************************************)
(* Program constants.                                                      *)
(***************************************************************************)
SaveDelay == 5
CacheTTL == 60
DayLen == 86400
MaxRetries == 3
Delay == 1
UploadLimit == 10

Users == {"alice", "bob"}
Callers == {"c1", "c2"}    \* the coroutines that may be inside _get_valid_token
NoPassword == "None"
Passwords == {NoPassword, "pw"}

\* A token is a JWT: id names the string, exp is its exp claim (0: the token
\* carries no exp claim or cannot be decoded).  id 0 is None (no token).
NoToken == [id |-> 0, exp |-> 0]

\* A cookie string is the sequence of its "key=value" items; "" is <<>>.
NoCookie == << >>
CookieOf(tid) == << <<"token", tid>> >>

\* An exception: its class and, where it has one, the HTTP status (0: None).
Exc(type, status) == [type |-> type, status |-> status]
NoExc == Exc("none", 0)

\* The dict _create_chat returns, a request to the remote service, and what
\* an operation of the pipeline returns.
NoChat == [session_id |-> 0, chat_id |-> 0, assistant_msg_id |-> 0]
NoReq == [to |-> "none", token |-> 0, file |-> 0, user |-> 0, chat |-> NoChat]
NoVal == [file |-> 0, chat |-> NoChat, text |-> FALSE]

\* No request is being served.
\* What the remote side answers: a good answer, an answer without the
\* expected content (no id, no chat, no text), status 401, another error
\* status, no answer at all.
Answers == {"ok", "bad", "s401", "s500", "net"}

\* No recognition request: faults counts the failing answers so far, of
\* the kinds in fails and at most budget of them in a behaviour.
IdlePipe ==
    [pc |-> "idle", kind |-> "none", cookie |-> NoCookie, input |-> "good", username |-> "",
     stack |-> << >>, site |-> "body", exc |-> NoExc, val |-> NoVal,
     fileInfo |-> 0, chatData |-> NoChat, req |-> NoReq, wakeAt |-> 0,
     result |-> "none", faults |-> 0, nUuid |-> 0, nSrv |-> 0,
     budget |-> MaxFaults, fails |-> Answers \ {"ok"}]

NoHist == [upOk |-> FALSE, chOk |-> FALSE, srvChat |-> NoChat, ans401 |-> FALSE, wraised |-> NoExc,
           up |-> 0, ch |-> 0, co |-> 0, rch |-> 0, rco |-> 0, chats |-> 0]

VARIABLES
    now,            \* time.time()
    ticks,          \* clock advances so far (bounds the behaviour)
    accounts,       \* ConfigManager._accounts
    lastLoadTime,   \* ConfigManager._last_load_time
    dirty,          \* ConfigManager._dirty
    timer,          \* ConfigManager._save_timer: the delayed_save task
    zombie,         \* a delayed_save task cancelled inside the save, cancellation not yet delivered
    saveLock,       \* ConfigManager._save_lock: "free" or its holder
    file,           \* config.yaml
    tmp,            \* config.yaml.tmp
    ops,            \* requests and faults so far (bounds the behaviour)
    edited,         \* the operator has edited config.yaml
    nSignin,        \* sign-in requests answered so far
    signinLog,      \* what each signin call so far returned or raised, in the order of the answers
    caller,         \* the coroutines inside _get_valid_token
    authFailed,     \* per username: a sign-in failed and none succeeded, and no enable call came, since
    off,            \* per username: disable_account was called for it and nothing has enabled it since
    burst,          \* the mutations since the last save: the list they should leave, and whether
                    \* each came less than _save_delay after the one before
    pipe,           \* the coroutine serving one recognition request: its retry wrappers and locals
    hist,           \* what the remote service has answered to that request, what its wrappers raised,
                    \* the upload, create-chat and completion requests it has sent (up, ch, co), and for
                    \* its current recognize_image call the requests sent (rch, rco) and the chats created
    strm,           \* the streamed completion response being read by _recognize_image, and its locals
    archive,        \* the bytes submitted to create_zip_ocr_task
    image_files,    \* process_images' list image_files
    main,           \* the process_images coroutine: its position and its pending write of task.json
    img,            \* the process_single_image coroutines, in the order of image_files
    task_data,      \* process_images' dict task_data
    disk,           \* data/<task_id>: task.json and the content files
    upload_semaphore,   \* process_images' upload_semaphore and the coroutines inside its block
    saveFaults,     \* writes of task.json that failed so far (bounds the behaviour)
    reply           \* what GET /api/zip/ocr/{task_id}/content answered

vars == <<now, ticks, accounts, lastLoadTime, dirty, timer, zombie, saveLock,
          file, tmp, ops, edited, nSignin, signinLog, caller, authFailed, off, pipe, hist, burst,
          strm, archive, image_files, main, img, task_data, disk, upload_semaphore, saveFaults,
          reply>>

batchVars == <<archive, image_files, main, img, task_data, disk, upload_semaphore, saveFaults, reply>>

\* The store, its callers and the recognition request.
pipeVars == <<now, ticks, accounts, lastLoadTime, dirty, timer, zombie, saveLock,
              file, tmp, ops, edited, nSignin, signinLog, caller, authFailed, off, pipe, hist, burst>>

storeVars == <<accounts, lastLoadTime, dirty, timer, zombie, saveLock, file, tmp>>

(***************************************************************************)
(* ConfigManager: the cache and its reload.                                *)
(***************************************************************************)
\* _should_reload_config.  _config_cache is not None once the constructor
\* has run, and config.yaml exists (os.path.getmtime does not raise).
ShouldReloadConfig ==
    \/ now - lastLoadTime > CacheTTL
    \/ file.mtime > lastLoadTime

\* yaml.safe_load of a file that is not one complete document raises, and
\* _load_config_if_needed re-raises: the calling handler ends there.
LoadRaises == ShouldReloadConfig /\ ~file.complete

\* _load_config_if_needed: _accounts and _last_load_time after the call.
LoadedAccounts == IF ShouldReloadConfig THEN file.accounts ELSE accounts
LoadedTime == IF ShouldReloadConfig THEN now ELSE lastLoadTime

\* get_account_by_username on the list accs: the index of the first account
\* of that name, 0 for None.
IndexOfUser(accs, u) ==
    IF \E i \in 1..Len(accs) : accs[i].username = u
    THEN CHOOSE i \in 1..Len(accs) :
            /\ accs[i].username = u
            /\ \A j \in 1..(i - 1) : accs[j].username # u
    ELSE 0

HasUser(accs, u) == IndexOfUser(accs, u) # 0
AccountOf(accs, u) == accs[IndexOfUser(accs, u)]

\* get_enabled_accounts.
EnabledAccounts(accs) == SelectSeq(accs, LAMBDA a : a.enabled)

(***************************************************************************)
(* ConfigManager: the mutators, as functions of the list after the reload. *)
(***************************************************************************)
\* add_account appending whether or not the username is there.
AddAccountToAppending(accs, u, pw, ck, tok, en) ==
    Append(accs, [username |-> u, password |-> pw, cookie |-> ck,
                  token |-> tok, expires_at |-> 0, enabled |-> en])

AddAccountTo(accs, u, pw, ck, tok, en) ==
    IF HasUser(accs, u)
    THEN [accs EXCEPT ![IndexOfUser(accs, u)] =
            [@ EXCEPT !.password = pw, !.cookie = ck, !.token = tok, !.enabled = en]]
    ELSE Append(accs, [username |-> u, password |-> pw, cookie |-> ck,
                       token |-> tok, expires_at |-> 0, enabled |-> en])

\* update_account leaving expires_at as it is.
UpdateAccountInNoExpiry(accs, u, tok, ck, exp, en) ==
    IF HasUser(accs, u)
    THEN [accs EXCEPT ![IndexOfUser(accs, u)] =
            [@ EXCEPT !.token = tok, !.cookie = ck, !.enabled = en]]
    ELSE Append(accs, [username |-> u, password |-> NoPassword, cookie |-> ck,
                       token |-> tok, expires_at |-> exp, enabled |-> en])

UpdateAccountIn(accs, u, tok, ck, exp, en) ==
    IF HasUser(accs, u)
    THEN [accs EXCEPT ![IndexOfUser(accs, u)] =
            [@ EXCEPT !.token = tok, !.cookie = ck, !.expires_at = exp, !.enabled = en]]
    ELSE Append(accs, [username |-> u, password |-> NoPassword, cookie |-> ck,
                       token |-> tok, expires_at |-> exp, enabled |-> en])

SetEnabledIn(accs, u, en) ==
    IF HasUser(accs, u)
    THEN [accs EXCEPT ![IndexOfUser(accs, u)] = [@ EXCEPT !.enabled = en]]
    ELSE accs

RemoveAccountFrom(accs, u) == SelectSeq(accs, LAMBDA a : a.username # u)

(***************************************************************************)
(* ConfigManager: the debounced save.                                      *)
(***************************************************************************)
NoTask == [pc |-> "none", deadline |-> 0, snap |-> << >>]
InSave(t) == t.pc \in {"opening", "writing", "closing"}

\* _schedule_save: cancel the pending task, set _dirty, start a new task.
\* Task.cancel() only requests the cancellation: a task sleeping or waiting
\* for _save_lock ends with no effect; a task inside _save_config_to_file
\* holds _save_lock until the CancelledError is delivered to it.
ScheduleSave ==
    /\ dirty' = TRUE
    /\ timer' = [pc |-> "sleeping", deadline |-> now + SaveDelay, snap |-> << >>]
    /\ zombie' = IF InSave(timer) THEN timer ELSE zombie
    /\ UNCHANGED saveLock

\* A mutator: _load_config_if_needed, the change F of the list, _schedule_save.
Mutate(F(_)) ==
    /\ ~LoadRaises
    /\ accounts' = F(LoadedAccounts)
    /\ lastLoadTime' = LoadedTime
    /\ ScheduleSave
    /\ burst' = IF dirty /\ timer.pc = "sleeping"
                THEN [expect |-> F(burst.expect), tight |-> burst.tight /\ now < timer.deadline]
                ELSE [expect |-> F(LoadedAccounts), tight |-> TRUE]
    /\ UNCHANGED <<now, ticks, file, tmp, edited>>

\* A handler that only reads the store: the reload is all it changes.
ReadOnly ==
    /\ ~LoadRaises
    /\ accounts' = LoadedAccounts
    /\ lastLoadTime' = LoadedTime
    /\ UNCHANGED <<now, ticks, dirty, timer, zombie, saveLock, file, tmp, edited, burst>>

\* EnterSave without _save_lock: a save starts while another is inside.
EnterSaveNoLock ==
    /\ ~LoadRaises
    /\ saveLock' = "held"
    /\ timer' = [timer EXCEPT !.pc = "opening", !.snap = accounts]
    /\ accounts' = LoadedAccounts
    /\ lastLoadTime' = LoadedTime

\* delayed_save wakes from asyncio.sleep(_save_delay).  With _dirty set it
\* enters _save_config_to_file: takes _save_lock (or waits for it), builds
\* config, whose 'accounts' is the list object _accounts names at that
\* moment; evaluating self.common_cookies next runs _load_config_if_needed,
\* which may rebind _accounts to a list read from the file.  Then it awaits
\* aiofiles.open.
EnterSave ==
    IF saveLock = "free"
    THEN /\ ~LoadRaises
         /\ saveLock' = "held"
         /\ timer' = [timer EXCEPT !.pc = "opening", !.snap = accounts]
         /\ accounts' = LoadedAccounts
         /\ lastLoadTime' = LoadedTime
    ELSE /\ timer' = [timer EXCEPT !.pc = "waitlock"]
         /\ UNCHANGED <<saveLock, accounts, lastLoadTime>>

SaveWake ==
    /\ timer.pc = "sleeping"
    /\ now >= timer.deadline
    /\ IF dirty
       THEN EnterSave
       ELSE /\ timer' = [timer EXCEPT !.pc = "done"]
            /\ UNCHANGED <<saveLock, accounts, lastLoadTime>>
    /\ UNCHANGED <<now, ticks, dirty, zombie, file, tmp, ops, edited, nSignin, signinLog, caller, authFailed, off, pipe, hist, strm, batchVars, burst>>

SaveLockAcquired ==
    /\ timer.pc = "waitlock"
    /\ saveLock = "free"
    /\ EnterSave
    /\ UNCHANGED <<now, ticks, dirty, zombie, file, tmp, ops, edited, nSignin, signinLog, caller, authFailed, off, pipe, hist, strm, batchVars, burst>>

\* aiofiles.open(temp_file, 'w') returns: the temp file exists and is empty;
\* yaml.safe_dump(config) is evaluated and f.write awaited.
SaveOpened ==
    /\ timer.pc = "opening"
    /\ timer' = [timer EXCEPT !.pc = "writing"]
    /\ tmp' = [exists |-> TRUE, complete |-> FALSE, accounts |-> << >>]
    /\ UNCHANGED <<now, ticks, accounts, lastLoadTime, dirty, zombie, saveLock, file,
                   ops, edited, nSignin, signinLog, caller, authFailed, off, pipe, hist, strm, batchVars, burst>>

\* f.write returns: the temp file holds the whole document; the file's close
\* is awaited.
SaveWritten ==
    /\ timer.pc = "writing"
    /\ timer' = [timer EXCEPT !.pc = "closing"]
    /\ tmp' = [exists |-> TRUE, complete |-> TRUE, accounts |-> timer.snap]
    /\ UNCHANGED <<now, ticks, accounts, lastLoadTime, dirty, zombie, saveLock, file,
                   ops, edited, nSignin, signinLog, caller, authFailed, off, pipe, hist, strm, batchVars, burst>>

\* os.replace(temp_file, _config_file): config.yaml becomes what the temp file is.
ReplaceFile(t) == [accounts |-> t.accounts, complete |-> t.complete, mtime |-> now]

\* The close returns; os.replace, _last_load_time = time.time(), the lock is
\* released and delayed_save clears _dirty: no await in between.
SaveReplaced ==
    /\ timer.pc = "closing"
    /\ file' = ReplaceFile(tmp)
    /\ tmp' = [exists |-> FALSE, complete |-> FALSE, accounts |-> << >>]
    /\ lastLoadTime' = now
    /\ saveLock' = "free"
    /\ dirty' = FALSE
    /\ timer' = [timer EXCEPT !.pc = "done"]
    /\ UNCHANGED <<now, ticks, accounts, zombie, ops, edited, nSignin, signinLog, caller, authFailed, off, pipe, hist, strm, batchVars, burst>>

\* An I/O error inside the save: the except branch removes the temp file and
\* re-raises; the task ends, _dirty stays set.
SaveIOError ==
    /\ InSave(timer)
    /\ ops < MaxOps
    /\ ops' = ops + 1
    /\ tmp' = [exists |-> FALSE, complete |-> FALSE, accounts |-> << >>]
    /\ saveLock' = "free"
    /\ timer' = [timer EXCEPT !.pc = "failed"]
    /\ UNCHANGED <<now, ticks, accounts, lastLoadTime, dirty, zombie, file,
                   edited, nSignin, signinLog, caller, authFailed, off, pipe, hist, strm, batchVars, burst>>

\* The CancelledError reaches a task cancelled inside the save.  It is no
\* Exception: the except branch does not run and the temp file stays as the
\* interrupted step left it; the lock is released.
TmpAfterCancel(t) ==
    CASE t.pc = "opening" -> {tmp, [exists |-> TRUE, complete |-> FALSE, accounts |-> << >>]}
      [] t.pc = "writing" -> {tmp, [exists |-> TRUE, complete |-> TRUE, accounts |-> t.snap]}
      [] OTHER -> {tmp}

CancelDelivered ==
    /\ zombie.pc # "none"
    /\ tmp' \in TmpAfterCancel(zombie)
    /\ zombie' = NoTask
    /\ saveLock' = "free"
    /\ UNCHANGED <<now, ticks, accounts, lastLoadTime, dirty, timer, file,
                   ops, edited, nSignin, signinLog, caller, authFailed, off, pipe, hist, strm, batchVars, burst>>

(***************************************************************************)
(* The environment: the clock, the operator's editor, a restart.           *)
(***************************************************************************)
TickSteps == {1, SaveDelay, CacheTTL}

\* Time passes.  A sleeping delayed_save wakes when its delay is over: the
\* clock does not run past its deadline while it sleeps.
TickBy(d) ==
    /\ ticks < MaxTicks
    /\ timer.pc = "sleeping" => now + d <= timer.deadline
    /\ now' = now + d
    /\ ticks' = ticks + 1
    /\ UNCHANGED <<storeVars, ops, edited, nSignin, signinLog, caller, authFailed, off, pipe, hist, strm, batchVars, burst>>

Tick == \E d \in TickSteps : TickBy(d)

\* The operator rewrites config.yaml by hand, changing an account's enabled flag.
ExternalEdit ==
    /\ ops < MaxOps
    /\ file.complete
    /\ \E u \in Users :
        /\ HasUser(file.accounts, u)
        /\ file' = [file EXCEPT !.accounts = SetEnabledIn(@, u, ~AccountOf(@, u).enabled),
                                !.mtime = now]
    /\ ops' = ops + 1
    /\ edited' = TRUE
    /\ UNCHANGED <<now, ticks, accounts, lastLoadTime, dirty, timer, zombie, saveLock,
                   tmp, nSignin, signinLog, caller, authFailed, off, pipe, hist, strm, batchVars, burst>>

IdleCallers == [p \in Callers |->
                  [pc |-> "idle", cookie |-> NoCookie, username |-> "", password |-> NoPassword,
                   result |-> "", token |-> NoToken, since |-> 0]]

\* The process is killed and started again: get_instance() builds a new
\* ConfigManager, whose constructor loads config.yaml.  The files stay.
Restart ==
    /\ ops < MaxOps
    /\ ops' = ops + 1
    /\ file.complete
    /\ accounts' = file.accounts
    /\ lastLoadTime' = now
    /\ dirty' = FALSE
    /\ timer' = NoTask
    /\ zombie' = NoTask
    /\ saveLock' = "free"
    /\ caller' = IdleCallers
    /\ authFailed' = [u \in Users |-> FALSE]
    /\ off' = [u \in Users |-> FALSE]
    /\ burst' = [expect |-> file.accounts, tight |-> TRUE]
    /\ pipe' = [IdlePipe EXCEPT !.faults = pipe.faults, !.nUuid = pipe.nUuid, !.nSrv = pipe.nSrv,
                                !.budget = pipe.budget, !.fails = pipe.fails]
    /\ hist' = NoHist
    /\ UNCHANGED <<now, ticks, file, tmp, edited, nSignin, signinLog, strm, batchVars>>

(***************************************************************************)
(* ConfigManager: its public operations.                                   *)
(***************************************************************************)
\* The accounts property and the other readers.
ReadAccounts ==
    /\ ShouldReloadConfig
    /\ ReadOnly
    /\ UNCHANGED <<ops, nSignin, signinLog, caller, authFailed, off, pipe, hist, strm, batchVars>>

AddAccount ==
    /\ ops < MaxOps
    /\ ops' = ops + 1
    /\ \E u \in Users, pw \in Passwords, en \in BOOLEAN :
        /\ Mutate(LAMBDA l : AddAccountTo(l, u, pw, NoCookie, NoToken, en))
        /\ authFailed' = [authFailed EXCEPT ![u] = @ /\ ~en]
        /\ off' = [off EXCEPT ![u] = @ /\ ~en]
        /\ UNCHANGED <<nSignin, signinLog, caller, pipe, hist, strm, batchVars>>

RemoveAccount ==
    /\ ops < MaxOps
    /\ ops' = ops + 1
    /\ \E u \in Users :
        /\ Mutate(LAMBDA l : RemoveAccountFrom(l, u))
        /\ authFailed' = [authFailed EXCEPT ![u] = FALSE]
        /\ off' = [off EXCEPT ![u] = FALSE]
        /\ UNCHANGED <<nSignin, signinLog, caller, pipe, hist, strm, batchVars>>

\* disable_account and enable_account: an unknown username is only logged.
SetEnabled(u, en) ==
    IF HasUser(LoadedAccounts, u)
    THEN Mutate(LAMBDA l : SetEnabledIn(l, u, en))
    ELSE ReadOnly

EnableAccount ==
    /\ ops < MaxOps
    /\ ops' = ops + 1
    /\ \E u \in Users :
        /\ SetEnabled(u, TRUE)
        /\ authFailed' = [authFailed EXCEPT ![u] = FALSE]
        /\ off' = [off EXCEPT ![u] = FALSE]
        /\ UNCHANGED <<nSignin, signinLog, caller, pipe, hist, strm, batchVars>>

DisableAccount ==
    /\ ops < MaxOps
    /\ ops' = ops + 1
    /\ \E u \in Users :
        /\ SetEnabled(u, FALSE)
        /\ off' = [off EXCEPT ![u] = HasUser(LoadedAccounts, u)]
        /\ UNCHANGED <<nSignin, signinLog, caller, authFailed, pipe, hist, strm, batchVars>>

\* parse_cookie: the dict of a cookie string; a later item of the same key
\* replaces an earlier one.
ParseCookie(c) ==
    [k \in {c[i][1] : i \in 1..Len(c)} |->
        c[CHOOSE i \in 1..Len(c) :
            /\ c[i][1] = k
            /\ \A j \in (i + 1)..Len(c) : c[j][1] # k][2]]

KeyFields == {"token", "SERVERID", "SERVERCORSID"}

\* The loop body of get_account_by_cookie: whether account a is returned for
\* the parsed input cookie.
CookieMatches(a, input) ==
    /\ a.enabled
    /\ a.cookie # NoCookie
    /\ \A f \in KeyFields :
        (f \in DOMAIN ParseCookie(a.cookie) /\ f \in DOMAIN input)
            => ParseCookie(a.cookie)[f] = input[f]

\* get_account_by_cookie on the list accs: the index of the account
\* returned, 0 for None.
GetAccountByCookie(accs, cookie) ==
    IF cookie = NoCookie THEN 0
    ELSE IF \E i \in 1..Len(accs) : CookieMatches(accs[i], ParseCookie(cookie))
    THEN CHOOSE i \in 1..Len(accs) :
            /\ CookieMatches(accs[i], ParseCookie(cookie))
            /\ \A j \in 1..(i - 1) : ~CookieMatches(accs[j], ParseCookie(cookie))
    ELSE 0

(***************************************************************************)
(* auth.py: signin and check_token_validity.                               *)
(***************************************************************************)
\* check_token_validity comparing the exp claim, in seconds, with a clock in
\* milliseconds.
CheckTokenValidityMillis(tok) == tok.exp > now * 1000

\* check_token_validity: jwt.decode without signature check, exp > time.time();
\* a token that cannot be decoded or has no exp claim is not valid.
CheckTokenValidity(tok) == tok.exp > now

InitTokens == Cardinality(Users)
FreshTokenId == InitTokens + nSignin + 1

\* What the provider answers to a sign-in that succeeds: the token's exp
\* claim and the expires_at of the body, each possibly absent (0).
SigninAnswers == [exp : {0, now + TokenLife}, expires_at : {0, now + TokenLife}]

\* signin's return value (token, all_cookies, expires_at) for an answer.
SigninResult(ans) ==
    [token |-> [id |-> FreshTokenId, exp |-> ans.exp],
     cookie |-> CookieOf(FreshTokenId),
     expires_at |-> IF ans.expires_at # 0 THEN ans.expires_at
                    ELSE IF ans.exp # 0 THEN ans.exp
                    ELSE now + DayLen]

\* The ways a sign-in fails: httpx.RequestError, an error status of the home
\* page, a status other than 200 of the sign-in POST, a body that is no JSON,
\* a body without token, no cookie at all, anything else.
SigninFailures == {"request", "home_status", "status", "json", "notoken", "nocookie", "other"}

\* What signin raises for each failure: the except branches of signin.
SigninRaises(kind) ==
    IF kind \in {"home_status", "other"} THEN "Exception" ELSE "AuthError"

\* What a signin call for u that failed left behind: the class of the
\* exception raised to its caller and the status_code and raw_response the
\* exception carries.  The AuthError raised inside the try block passes
\* through the last except branch, which disables again and re-raises it.
SigninFailed(u, kind) ==
    [username |-> u, kind |-> kind, raised |-> SigninRaises(kind),
     status |-> IF kind = "status" THEN 401 ELSE 0,
     raw |-> kind \in {"status", "json", "notoken", "nocookie"},
     token |-> NoToken, cookie |-> NoCookie, expires_at |-> 0]

\* What a signin call for u that returned res left behind.
SigninReturned(u, res) ==
    [username |-> u, kind |-> "ok", raised |-> "none", status |-> 0, raw |-> FALSE,
     token |-> res.token, cookie |-> res.cookie, expires_at |-> res.expires_at]

\* signin succeeds: update_account(username, token, all_cookies, expires_at, enabled=True).
SigninStores(accs, u, res) ==
    UpdateAccountIn(accs, u, res.token, res.cookie, res.expires_at, TRUE)

\* POST /api/auth/login: signin for any username.
LoginOk ==
    /\ ops < MaxOps
    /\ ops' = ops + 1
    /\ \E u \in Users, ans \in SigninAnswers :
        /\ Mutate(LAMBDA l : SigninStores(l, u, SigninResult(ans)))
        /\ authFailed' = [authFailed EXCEPT ![u] = FALSE]
        /\ off' = [off EXCEPT ![u] = FALSE]
        /\ signinLog' = Append(signinLog, SigninReturned(u, SigninResult(ans)))
    /\ nSignin' = nSignin + 1
    /\ UNCHANGED <<caller, pipe, hist, strm, batchVars>>

\* signin fails: every failure path calls disable_account(username).
LoginFail ==
    /\ ops < MaxOps
    /\ ops' = ops + 1
    /\ \E u \in Users, kind \in SigninFailures :
        /\ SetEnabled(u, FALSE)
        /\ authFailed' = [authFailed EXCEPT ![u] = HasUser(LoadedAccounts, u)]
        /\ off' = [off EXCEPT ![u] = HasUser(LoadedAccounts, u)]
        /\ signinLog' = Append(signinLog, SigninFailed(u, kind))
    /\ nSignin' = nSignin + 1
    /\ UNCHANGED <<caller, pipe, hist, strm, batchVars>>

(***************************************************************************)
(* ocr.py: _get_valid_token.                                               *)
(***************************************************************************)
OtherCookie == << <<"lang", 0>> >>
InputCookies == {NoCookie, OtherCookie}
                \cup {CookieOf(t) : t \in 1..InitTokens}
                \cup {accounts[i].cookie : i \in 1..Len(accounts)}

Done(c, res, tok) == [c EXCEPT !.pc = "done", !.result = res, !.token = tok]

\* _get_valid_token calling signin whatever the credentials are.
TokenDecisionNoCredentialCheck(accs, ck) ==
    LET i == GetAccountByCookie(accs, ck)
        a == accs[i]
    IN  IF i = 0
        THEN [kind |-> "OCRError", token |-> NoToken, username |-> "", password |-> NoPassword]
        ELSE IF a.token # NoToken /\ CheckTokenValidity(a.token)
        THEN [kind |-> "token", token |-> a.token, username |-> a.username, password |-> a.password]
        ELSE [kind |-> "signin", token |-> NoToken, username |-> a.username, password |-> a.password]

\* _get_valid_token up to its first suspension, on the list accs: the
\* account of the cookie, the cached token if it is valid, else the
\* credentials for signin.
TokenDecision(accs, ck) ==
    LET i == GetAccountByCookie(accs, ck)
        a == accs[i]
    IN  IF i = 0
        THEN [kind |-> "OCRError", token |-> NoToken, username |-> "", password |-> NoPassword]
        ELSE IF a.token # NoToken /\ CheckTokenValidity(a.token)
        THEN [kind |-> "token", token |-> a.token, username |-> a.username, password |-> a.password]
        ELSE IF a.password = NoPassword
        THEN [kind |-> "OCRError", token |-> NoToken, username |-> a.username, password |-> a.password]
        ELSE [kind |-> "signin", token |-> NoToken, username |-> a.username, password |-> a.password]

\* A _get_valid_token call starts (get_account_by_cookie reloads the cache first).
GetValidTokenStart(p, ck) ==
    LET d == TokenDecision(LoadedAccounts, ck)
    IN  /\ caller[p].pc = "idle"
        /\ ops < MaxOps
        /\ ops' = ops + 1
        /\ ReadOnly
        /\ caller' = [caller EXCEPT ![p] =
             IF d.kind = "signin"
             THEN [@ EXCEPT !.pc = "signin", !.cookie = ck, !.since = nSignin,
                            !.username = d.username, !.password = d.password]
             ELSE Done([@ EXCEPT !.cookie = ck, !.since = nSignin, !.username = d.username],
                       d.kind, d.token)]
        /\ UNCHANGED <<nSignin, signinLog, authFailed, off, pipe, hist, strm, batchVars>>

\* _get_valid_token storing the new token with the cookie the account had.
RefreshStoresOldCookie(accs, u, res) ==
    UpdateAccountIn(SigninStores(accs, u, res), u, res.token,
                    IF HasUser(accs, u) THEN AccountOf(accs, u).cookie ELSE NoCookie,
                    res.expires_at, TRUE)

\* signin returns: it has stored the new credentials, and _get_valid_token
\* stores them again, update_account(username, new_token, new_cookie, expires_at).
RefreshStores(accs, u, res) ==
    UpdateAccountIn(SigninStores(accs, u, res), u, res.token, res.cookie, res.expires_at, TRUE)

GetValidTokenSigninOk(p) ==
    /\ caller[p].pc = "signin"
    /\ UNCHANGED <<ops, pipe, hist, strm, batchVars>>
    /\ \E ans \in SigninAnswers :
        /\ Mutate(LAMBDA l : RefreshStores(l, caller[p].username, SigninResult(ans)))
        /\ caller' = [caller EXCEPT ![p] = Done(@, "token", SigninResult(ans).token)]
        /\ signinLog' = Append(signinLog, SigninReturned(caller[p].username, SigninResult(ans)))
    /\ authFailed' = [authFailed EXCEPT ![caller[p].username] = FALSE]
    /\ off' = [off EXCEPT ![caller[p].username] = FALSE]
    /\ nSignin' = nSignin + 1

\* signin raises: the account is disabled and the error leaves
\* _get_valid_token as an OCRError.
GetValidTokenSigninFail(p) ==
    /\ caller[p].pc = "signin"
    /\ UNCHANGED <<ops, pipe, hist, strm, batchVars>>
    /\ \E kind \in SigninFailures :
        /\ SetEnabled(caller[p].username, FALSE)
        /\ caller' = [caller EXCEPT ![p] = Done(@, "OCRError", NoToken)]
        /\ signinLog' = Append(signinLog, SigninFailed(caller[p].username, kind))
    /\ authFailed' = [authFailed EXCEPT ![caller[p].username] =
                        HasUser(LoadedAccounts, caller[p].username)]
    /\ off' = [off EXCEPT ![caller[p].username] =
                        HasUser(LoadedAccounts, caller[p].username)]
    /\ nSignin' = nSignin + 1

\* The caller has its answer; the coroutine is gone.
GetValidTokenReturn(p) ==
    /\ caller[p].pc = "done"
    /\ caller' = [caller EXCEPT ![p] = IdleCallers[p]]
    /\ UNCHANGED <<now, ticks, storeVars, ops, edited, nSignin, signinLog, authFailed, off, burst, pipe, hist, strm, batchVars>>

GetValidToken ==
    \E p \in Callers :
        \/ \E ck \in InputCookies : GetValidTokenStart(p, ck)
        \/ GetValidTokenSigninOk(p)
        \/ GetValidTokenSigninFail(p)
        \/ GetValidTokenReturn(p)

(***************************************************************************)
(* ocr.py: retry_with_token_refresh and the operations it wraps.           *)
(*                                                                         *)
(* One request is one coroutine.  pipe.stack holds the frames of its       *)
(* nested retry_with_token_refresh calls, outermost first: "url"           *)
(* (process_image_url), "base64" (process_base64_image), "upload"          *)
(* (upload_image_info), "recognize" (recognize_image), "chat"              *)
(* (create_chat).  pipe.pc tells where the innermost one stands.           *)
(***************************************************************************)
\* 'token=' in arg: the wrapper takes a string argument holding it as the cookie.
HasTokenItem(ck) == \E i \in 1..Len(ck) : ck[i][1] = "token"

\* A retry_with_token_refresh call: attempt and last_exception are its
\* locals; refreshes counts its own _get_valid_token calls, seen401 the
\* httpx 401 errors its operation raised to it, calls the times it has
\* called its operation and sleeps the times it has called asyncio.sleep.
Frame(op) == [op |-> op, attempt |-> 0, last |-> NoExc, refreshes |-> 0, seen401 |-> 0,
              calls |-> 0, sleeps |-> 0]
Top(p) == p.stack[Len(p.stack)]
SetTop(p, f) == [p EXCEPT !.stack[Len(p.stack)] = f]
Push(p, op) == [p EXCEPT !.stack = Append(@, Frame(op)), !.pc = "call", !.site = "body",
                         !.req = NoReq]
Pop(p) == [p EXCEPT !.stack = SubSeq(@, 1, Len(@) - 1)]

\* The exception that leaves the body of an operation when e is raised in
\* it: by its _get_valid_token call ("token"), by its own request
\* ("request") or by the wrapped operation it calls ("child").
BodyCatch(op, stage, e) ==
    CASE op = "upload" -> e
      [] op = "chat" ->
            IF stage = "token" THEN e
            ELSE IF e.type = "httpx" THEN Exc("OCRError", e.status)
            ELSE Exc("OCRError", 0)
      [] op = "recognize" ->
            IF stage = "request"
            THEN IF e.type = "httpx" THEN Exc("OCRError", e.status) ELSE Exc("OCRError", 0)
            ELSE IF e.type = "OCRError" THEN e ELSE Exc("OCRError", 0)
      [] OTHER -> Exc("OCRError", 0)

\* The body of the innermost operation raises: its wrapper's except
\* branches run next.
Raise(p, stage, e) ==
    LET x == BodyCatch(Top(p).op, stage, e)
        n == IF x.type = "httpx" /\ x.status = 401 THEN 1 ELSE 0
    IN  SetTop([p EXCEPT !.pc = "raised", !.exc = x, !.site = "body", !.req = NoReq],
               [Top(p) EXCEPT !.seen401 = @ + n])

\* The body of the innermost operation returns v, and so does its wrapper.
Return(p, v) == [p EXCEPT !.pc = "returned", !.val = v, !.req = NoReq]

\* The request an operation sends once it has its token.  _create_chat
\* draws two fresh uuids for the user and the assistant message;
\* _recognize_image sends the ids of the chat_data it holds.
Issue(p, tok) ==
    CASE Top(p).op = "upload" ->
            [p EXCEPT !.pc = "wait", !.req = [NoReq EXCEPT !.to = "upload", !.token = tok.id]]
      [] Top(p).op = "chat" ->
            [p EXCEPT !.pc = "wait", !.nUuid = @ + 2,
                      !.req = [to |-> "chat", token |-> tok.id, file |-> p.fileInfo,
                               user |-> p.nUuid + 1,
                               chat |-> [NoChat EXCEPT !.assistant_msg_id = p.nUuid + 2]]]
      [] OTHER ->
            [p EXCEPT !.pc = "wait",
                      !.req = [to |-> "completion", token |-> tok.id, file |-> p.fileInfo,
                               user |-> 0, chat |-> p.chatData]]

\* 'continue' after a refresh that succeeded: the next attempt, or the end
\* of the for loop and 'raise last_exception'.
Continue(p) ==
    IF Top(p).attempt + 1 < MaxRetries
    THEN SetTop([p EXCEPT !.pc = "call", !.site = "body"], [Top(p) EXCEPT !.attempt = @ + 1])
    ELSE [p EXCEPT !.pc = "failed", !.site = "body", !.exc = Top(p).last]

\* The backoff path sleeping after the last attempt as well.
BackoffAfterLast(p, e) ==
    IF Top(p).attempt < MaxRetries
    THEN SetTop([p EXCEPT !.pc = "sleep", !.site = "body", !.exc = NoExc,
                          !.wakeAt = now + Delay * (Top(p).attempt + 1)],
                [Top(p) EXCEPT !.sleeps = @ + 1])
    ELSE [p EXCEPT !.pc = "failed", !.site = "body",
                   !.exc = IF e.type = "httpx" THEN Exc("OCRError", e.status)
                           ELSE Exc("OCRError", 0)]

\* The backoff path for the failure e: sleep delay * (attempt + 1) and go
\* on, or after the last attempt raise OCRError (handle_api_error for an
\* httpx error keeps its status).
Backoff(p, e) ==
    IF Top(p).attempt < MaxRetries - 1
    THEN SetTop([p EXCEPT !.pc = "sleep", !.site = "body", !.exc = NoExc,
                          !.wakeAt = now + Delay * (Top(p).attempt + 1)],
                [Top(p) EXCEPT !.sleeps = @ + 1])
    ELSE [p EXCEPT !.pc = "failed", !.site = "body",
                   !.exc = IF e.type = "httpx" THEN Exc("OCRError", e.status)
                           ELSE Exc("OCRError", 0)]

\* The except branches with a refresh only for the first 401 of a call.
CatchRefreshOnce(p) ==
    LET q == SetTop(p, [Top(p) EXCEPT !.last = p.exc])
    IN  IF /\ p.exc.type = "httpx" /\ p.exc.status = 401 /\ HasTokenItem(p.cookie)
           /\ Top(p).refreshes = 0
        THEN SetTop([q EXCEPT !.pc = "token", !.site = "wrapper", !.exc = NoExc],
                    [Top(q) EXCEPT !.refreshes = @ + 1])
        ELSE Backoff(q, p.exc)

\* The except branches of retry_with_token_refresh for the exception the
\* operation raised: an httpx error with status 401 and a cookie among the
\* arguments lead to _get_valid_token, everything else to the backoff path.
Catch(p) ==
    LET q == SetTop(p, [Top(p) EXCEPT !.last = p.exc])
    IN  IF p.exc.type = "httpx" /\ p.exc.status = 401 /\ HasTokenItem(p.cookie)
        THEN SetTop([q EXCEPT !.pc = "token", !.site = "wrapper", !.exc = NoExc],
                    [Top(q) EXCEPT !.refreshes = @ + 1])
        ELSE Backoff(q, p.exc)

\* _get_valid_token returned tok: to the wrapper (refresh) or to the operation.
AfterToken(p, tok) == IF p.site = "wrapper" THEN Continue(p) ELSE Issue(p, tok)

\* _get_valid_token raised its OCRError: a failed refresh is only logged
\* and the wrapper takes the backoff path for the 401.
TokenFailed(p) ==
    IF p.site = "wrapper" THEN Backoff(p, Top(p).last)
    ELSE Raise(p, "token", Exc("OCRError", 0))

\* _create_chat returning the id of the user message as assistant_msg_id.
ChatReturnUserId(req, answer) ==
    [session_id |-> IF answer.session_id # 0 THEN answer.session_id ELSE answer.id,
     chat_id |-> answer.id,
     assistant_msg_id |-> req.user]

\* What _create_chat returns for the chat of the answer: session_id falls
\* back to the chat's id.
ChatReturn(req, answer) ==
    [session_id |-> IF answer.session_id # 0 THEN answer.session_id ELSE answer.id,
     chat_id |-> answer.id,
     assistant_msg_id |-> req.chat.assistant_msg_id]

\* A wrapper returned v to the operation that called it (child names the
\* wrapper's operation); with no caller left the request is served.
ChildReturned(p, child, v) ==
    IF Len(p.stack) = 0 THEN [p EXCEPT !.pc = "done", !.result = "ok", !.val = v]
    ELSE CASE child = "upload" -> Push([p EXCEPT !.fileInfo = v.file, !.val = NoVal], "recognize")
           [] child = "chat" -> [p EXCEPT !.chatData = v.chat, !.val = NoVal,
                                          !.pc = "token", !.site = "body"]
           [] OTHER -> Return(p, v)

\* A failed create_chat that _recognize_image ignores.
ChildRaisedSwallowed(p, e) ==
    IF Len(p.stack) = 0 THEN [p EXCEPT !.pc = "done", !.result = "raised", !.exc = e]
    ELSE IF Top(p).op = "recognize" THEN [p EXCEPT !.pc = "token", !.site = "body", !.exc = NoExc]
    ELSE Raise(p, "child", e)

\* A wrapper raised e to the operation that called it: the exception leaves
\* that operation too (through its except clauses).
ChildRaised(p, e) ==
    IF Len(p.stack) = 0 THEN [p EXCEPT !.pc = "done", !.result = "raised", !.exc = e]
    ELSE Raise(p, "child", e)

\* The request q.req has just been sent: the counts of the requests sent.
Sent(h, q) ==
    IF q.pc # "wait" THEN h
    ELSE CASE q.req.to = "upload" -> [h EXCEPT !.up = @ + 1]
           [] q.req.to = "chat" -> [h EXCEPT !.ch = @ + 1, !.rch = @ + 1]
           [] q.req.to = "completion" -> [h EXCEPT !.co = @ + 1, !.rco = @ + 1]
           [] OTHER -> h

Kinds == {"url", "base64"}
PipeCookies == {CookieOf(1), CookieOf(2), OtherCookie}

\* A request arrives: /api/recognize/url or /api/recognize/base64.
PipeStart ==
    /\ pipe.pc = "idle"
    /\ ops < MaxOps
    /\ ops' = ops + 1
    /\ \E k \in Kinds, ck \in PipeCookies, inp \in {"good", "bad"} :
        /\ inp = "bad" => k = "base64"
        /\ pipe' = Push([IdlePipe EXCEPT !.kind = k, !.cookie = ck, !.input = inp,
                                         !.faults = pipe.faults, !.nUuid = pipe.nUuid,
                                         !.budget = pipe.budget, !.fails = pipe.fails,
                                         !.nSrv = pipe.nSrv], k)
    /\ hist' = NoHist
    /\ UNCHANGED <<now, ticks, storeVars, edited, nSignin, signinLog, caller, authFailed, off, burst, strm, batchVars>>

\* An attempt of the innermost wrapper: 'await operation(*args, **kwargs)'
\* up to the operation's first await.
PipeInvoke ==
    /\ pipe.pc = "call"
    /\ LET op == Top(pipe).op
           p == SetTop(pipe, [Top(pipe) EXCEPT !.calls = @ + 1])
       IN  /\ pipe' =
                CASE op = "url" ->
                        [p EXCEPT !.pc = "wait", !.fileInfo = 0,
                                  !.req = [NoReq EXCEPT !.to = "download"]]
                  [] op = "base64" ->
                        IF p.input = "bad"
                        THEN Raise(p, "request", Exc("OCRError", 0))
                        ELSE Push([p EXCEPT !.fileInfo = 0], "upload")
                  [] op = "recognize" -> Push([p EXCEPT !.chatData = NoChat], "chat")
                  [] OTHER -> [p EXCEPT !.pc = "token", !.site = "body"]
           /\ hist' = [hist EXCEPT !.upOk = IF op \in {"url", "base64"} THEN FALSE ELSE @,
                                   !.chOk = IF op = "recognize" THEN FALSE ELSE @,
                                   !.srvChat = IF op = "recognize" THEN NoChat ELSE @,
                                   !.ans401 = FALSE]
    /\ UNCHANGED <<now, ticks, storeVars, ops, edited, nSignin, signinLog, caller, authFailed, off, burst, strm, batchVars>>

\* _get_valid_token(cookie), called by an operation or by the wrapper.
PipeToken ==
    /\ pipe.pc = "token"
    /\ ReadOnly
    /\ LET d == TokenDecision(LoadedAccounts, pipe.cookie)
       IN  pipe' = CASE d.kind = "token" -> AfterToken(pipe, d.token)
                     [] d.kind = "signin" -> [pipe EXCEPT !.pc = "signin", !.username = d.username]
                     [] OTHER -> TokenFailed(pipe)
    /\ hist' = Sent(hist, pipe')
    /\ UNCHANGED <<ops, nSignin, signinLog, caller, authFailed, off, strm, batchVars>>

PipeSigninOk ==
    /\ pipe.pc = "signin"
    /\ nSignin < MaxSignins
    /\ \E ans \in SigninAnswers :
        /\ Mutate(LAMBDA l : RefreshStores(l, pipe.username, SigninResult(ans)))
        /\ pipe' = AfterToken(pipe, SigninResult(ans).token)
        /\ signinLog' = Append(signinLog, SigninReturned(pipe.username, SigninResult(ans)))
    /\ authFailed' = [authFailed EXCEPT ![pipe.username] = FALSE]
    /\ off' = [off EXCEPT ![pipe.username] = FALSE]
    /\ nSignin' = nSignin + 1
    /\ hist' = Sent(hist, pipe')
    /\ UNCHANGED <<ops, caller, strm, batchVars>>

PipeSigninFail ==
    /\ pipe.pc = "signin"
    /\ nSignin < MaxSignins
    /\ pipe.faults < pipe.budget
    /\ SetEnabled(pipe.username, FALSE)
    /\ pipe' = TokenFailed([pipe EXCEPT !.faults = @ + 1])
    /\ signinLog' = Append(signinLog, SigninFailed(pipe.username, "request"))
    /\ authFailed' = [authFailed EXCEPT ![pipe.username] = HasUser(LoadedAccounts, pipe.username)]
    /\ off' = [off EXCEPT ![pipe.username] = HasUser(LoadedAccounts, pipe.username)]
    /\ nSignin' = nSignin + 1
    /\ UNCHANGED <<ops, caller, hist, strm, batchVars>>

\* The exception the request raises in the operation for an answer.  The
\* completion call raises OCRError itself for a status >= 400; the others
\* get httpx.HTTPStatusError from raise_for_status.
AnswerExc(to, a) ==
    CASE a = "s401" -> IF to = "completion" THEN Exc("OCRError", 401) ELSE Exc("httpx", 401)
      [] a = "s500" -> IF to = "completion" THEN Exc("OCRError", 500) ELSE Exc("httpx", 500)
      [] a = "net" -> Exc("httpx", 0)
      [] OTHER -> Exc("OCRError", 0)

PipeAnswer ==
    /\ pipe.pc = "wait"
    /\ \E a \in Answers, sid \in BOOLEAN :
        /\ a # "ok" => (a \in pipe.fails /\ pipe.faults < pipe.budget)
        /\ pipe.req.to = "download" => a # "bad"
        /\ sid => (a = "ok" /\ pipe.req.to = "chat")
        /\ LET to == pipe.req.to
               q == [pipe EXCEPT !.faults = IF a = "ok" THEN @ ELSE @ + 1]
               fid == pipe.nSrv + 1
               answer == [id |-> fid, session_id |-> IF sid THEN fid + 1 ELSE 0]
           IN  /\ pipe' =
                    IF a # "ok" THEN Raise(q, "request", AnswerExc(to, a))
                    ELSE CASE to = "download" -> Push(q, "upload")
                           [] to = "upload" ->
                                Return([q EXCEPT !.nSrv = fid], [NoVal EXCEPT !.file = fid])
                           [] to = "chat" ->
                                Return([q EXCEPT !.nSrv = fid + 1],
                                       [NoVal EXCEPT !.chat = ChatReturn(pipe.req, answer)])
                           [] OTHER -> Return(q, [NoVal EXCEPT !.text = TRUE])
               /\ hist' = [hist EXCEPT
                    !.ans401 = @ \/ (a = "s401" /\ to # "download"),
                    !.upOk = @ \/ (a = "ok" /\ to = "upload"),
                    !.chOk = @ \/ (a = "ok" /\ to = "chat"),
                    !.chats = IF a = "ok" /\ to = "chat" THEN @ + 1 ELSE @,
                    !.srvChat = IF a = "ok" /\ to = "chat"
                                THEN [session_id |-> answer.session_id, chat_id |-> answer.id,
                                      assistant_msg_id |-> pipe.req.chat.assistant_msg_id]
                                ELSE @]
    /\ UNCHANGED <<now, ticks, storeVars, ops, edited, nSignin, signinLog, caller, authFailed, off, burst, strm, batchVars>>

\* The wrapper catches what its operation raised.
PipeCatch ==
    /\ pipe.pc = "raised"
    /\ pipe' = Catch(pipe)
    /\ hist' = [hist EXCEPT !.ans401 = @ /\ pipe'.pc # "token"]
    /\ UNCHANGED <<now, ticks, storeVars, ops, edited, nSignin, signinLog, caller, authFailed, off, burst, strm, batchVars>>

\* asyncio.sleep(wait_time) returns: the clock has reached the wake-up time,
\* and the next attempt starts.  A sleeping delayed_save that is due earlier
\* wakes first: the clock reaches its deadline and the wrapper sleeps on.
PipeWake ==
    /\ pipe.pc = "sleep"
    /\ IF timer.pc = "sleeping" /\ timer.deadline < pipe.wakeAt
       THEN /\ now < timer.deadline
            /\ now' = timer.deadline
            /\ UNCHANGED pipe
       ELSE /\ now' = IF now < pipe.wakeAt THEN pipe.wakeAt ELSE now
            /\ pipe' = SetTop([pipe EXCEPT !.pc = "call", !.wakeAt = 0],
                              [Top(pipe) EXCEPT !.attempt = @ + 1])
    /\ UNCHANGED <<ticks, storeVars, ops, edited, nSignin, signinLog, caller, authFailed, off, burst, hist, strm, batchVars>>

\* Time passes around a recognition request: before it arrives, after it
\* is served and while it waits for the sign-in; between its attempts the
\* clock advances with the wrappers' sleeps.
PipeTick ==
    /\ pipe.pc \in {"idle", "done", "signin"}
    /\ TickBy(SaveDelay)

\* The innermost wrapper returns to its caller.
PipeReturn ==
    /\ pipe.pc = "returned"
    /\ pipe' = ChildReturned(Pop(pipe), Top(pipe).op, pipe.val)
    /\ hist' = IF Top(pipe).op = "upload"
               THEN [hist EXCEPT !.rch = 0, !.rco = 0, !.chats = 0]    \* a recognize_image call begins
               ELSE hist
    /\ UNCHANGED <<now, ticks, storeVars, ops, edited, nSignin, signinLog, caller, authFailed, off, burst, strm, batchVars>>

\* The innermost wrapper raises to its caller.
PipeRaise ==
    /\ pipe.pc = "failed"
    /\ pipe' = ChildRaised(Pop(pipe), pipe.exc)
    /\ hist' = [hist EXCEPT !.wraised = pipe.exc]
    /\ UNCHANGED <<now, ticks, storeVars, ops, edited, nSignin, signinLog, caller, authFailed, off, burst, strm, batchVars>>

(***************************************************************************)
(* _recognize_image: reading the streamed completion response.             *)
(*                                                                         *)
(* A text is the sequence of its characters.  A line of the response is    *)
(* one of:                                                                 *)
(*   blank      the empty line                                             *)
(*   noprefix   a line that does not start with "data: "                   *)
(*   malformed  "data: " followed by text json.loads rejects               *)
(*   other      "data: " and a JSON object without choices, or whose first *)
(*              choice has neither finish_reason "stop" nor delta.content  *)
(*   illtyped   "data: " and well-formed JSON of another shape (a number,  *)
(*              null, a delta whose content is null): the code raises      *)
(*              TypeError on it                                            *)
(*   delta      "data: " and a first choice with delta.content = content   *)
(*   finish     "data: " and a first choice with finish_reason "stop",     *)
(*              which may carry a delta.content as well                    *)
(* The response ends with the end of the stream ("eof") or with a network  *)
(* error raised by aiter_lines ("reset").                                  *)
(***************************************************************************)
Contents == {<< >>, <<"a">>, <<"b">>}

Line(kind, content) == [kind |-> kind, content |-> content]

Lines ==
    {Line(k, << >>) : k \in {"blank", "noprefix", "malformed", "other", "illtyped"}}
        \cup {Line(k, c) : k \in {"delta", "finish"}, c \in Contents}

RECURSIVE SeqsUpTo(_, _)
SeqsUpTo(S, n) ==
    IF n = 0 THEN {<< >>}
    ELSE LET shorter == SeqsUpTo(S, n - 1)
         IN  shorter \cup {Append(q, x) : q \in shorter, x \in S}

Endings == {"eof", "reset"}

\* The locals of the read loop; go tells how the loop body ended.
Locals(full, finished, content, go) ==
    [full_response |-> full, is_finished |-> finished, has_content |-> content, go |-> go]

InitLocals == Locals(<< >>, FALSE, FALSE, "next")

\* A finish fragment breaks the loop before its delta is looked at; a delta
\* is appended to the accumulator.
LineStepPrepend(l, line) ==
    CASE line.kind = "finish" -> [l EXCEPT !.is_finished = TRUE, !.go = "break"]
      [] line.kind = "delta" ->
            [l EXCEPT !.full_response = line.content \o @, !.has_content = TRUE]
      [] line.kind = "illtyped" -> [l EXCEPT !.go = "raise"]
      [] OTHER -> l

\* A malformed fragment ends the loop with the decoder's exception.
LineStepStrict(l, line) ==
    CASE line.kind = "finish" -> [l EXCEPT !.is_finished = TRUE, !.go = "break"]
      [] line.kind = "delta" ->
            [l EXCEPT !.full_response = @ \o line.content, !.has_content = TRUE]
      [] line.kind \in {"illtyped", "malformed"} -> [l EXCEPT !.go = "raise"]
      [] OTHER -> l

\* The delta of a finish fragment is appended before the loop breaks.
LineStepFinishAppends(l, line) ==
    CASE line.kind = "finish" ->
            [l EXCEPT !.full_response = @ \o line.content, !.is_finished = TRUE, !.go = "break"]
      [] line.kind = "delta" ->
            [l EXCEPT !.full_response = @ \o line.content, !.has_content = TRUE]
      [] line.kind = "illtyped" -> [l EXCEPT !.go = "raise"]
      [] OTHER -> l

\* One pass of the loop body over a line.
LineStep(l, line) ==
    CASE line.kind = "finish" -> [l EXCEPT !.is_finished = TRUE, !.go = "break"]
      [] line.kind = "delta" ->
            [l EXCEPT !.full_response = @ \o line.content, !.has_content = TRUE]
      [] line.kind = "illtyped" -> [l EXCEPT !.go = "raise"]
      [] OTHER -> l

(***************************************************************************)
(* _recognize_image: from the accumulated text to the result.              *)
(*                                                                         *)
(* The characters of a text: "a" a lower-case ASCII letter, "Z" an         *)
(* upper-case one ("A" is the upper case of "a"), "7" a digit, "sp" a      *)
(* space, "nl" a newline, "bs" a backslash, "flp" and "frp" the full-width *)
(* parentheses, "(" and ")" the ASCII ones.                                *)
(***************************************************************************)
TextChars == {"a", "Z", "7", "sp", "nl", "bs", "flp", "frp"}

\* re.fullmatch(r"[A-Za-z0-9]+", t)
IsAlnumText(t) ==
    t # << >> /\ \A k \in 1..Len(t) : t[k] \in {"a", "A", "Z", "7"}

\* str.upper() on ASCII letters and digits.
UpperText(t) == [k \in 1..Len(t) |-> IF t[k] = "a" THEN "A" ELSE t[k]]

\* str.replace(old, new) for a pattern of two characters: the occurrences
\* from left to right, not overlapping.
RECURSIVE ReplacePair(_, _, _, _)
ReplacePair(t, c1, c2, new) ==
    IF Len(t) < 2 THEN t
    ELSE IF t[1] = c1 /\ t[2] = c2
    THEN <<new>> \o ReplacePair(SubSeq(t, 3, Len(t)), c1, c2, new)
    ELSE <<t[1]>> \o ReplacePair(Tail(t), c1, c2, new)

\* re.sub(r'\n{3}', "\n\n", t): three newlines at a time.
RECURSIVE CollapseThreeNewlines(_)
CollapseThreeNewlines(t) ==
    IF t = << >> THEN << >>
    ELSE IF Len(t) >= 3 /\ t[1] = "nl" /\ t[2] = "nl" /\ t[3] = "nl"
    THEN <<"nl", "nl">> \o CollapseThreeNewlines(SubSeq(t, 4, Len(t)))
    ELSE <<t[1]>> \o CollapseThreeNewlines(Tail(t))

\* re.sub(r'\n{3,}', "\n\n", t): every maximal run of three or more
\* newlines becomes two newlines.
RECURSIVE CollapseNewlines(_)
CollapseNewlines(t) ==
    IF t = << >> THEN << >>
    ELSE IF t[1] # "nl" THEN <<t[1]>> \o CollapseNewlines(Tail(t))
    ELSE LET n == CHOOSE k \in 1..Len(t) :
                     /\ \A j \in 1..k : t[j] = "nl"
                     /\ k = Len(t) \/ t[k + 1] # "nl"
         IN  (IF n >= 3 THEN <<"nl", "nl">> ELSE SubSeq(t, 1, n))
                \o CollapseNewlines(SubSeq(t, n + 1, Len(t)))

\* str.strip(): without the leading and trailing whitespace.
Strip(t) ==
    LET inner == {k \in 1..Len(t) : t[k] \notin {"sp", "nl"}}
    IN  IF inner = {} THEN << >>
        ELSE SubSeq(t, CHOOSE k \in inner : \A j \in inner : k <= j,
                       CHOOSE k \in inner : \A j \in inner : j <= k)

\* The normalization of a text result: the two replace calls, the collapse
\* of the newline runs and strip.  The re.sub between them,
\* re.sub(r'([^\n])\n([^\n])', r'\1\n\2', result), puts back what it matched.
Normalize(t) ==
    Strip(CollapseNewlines(ReplacePair(ReplacePair(t, "bs", "flp", "("), "bs", "frp", ")")))

\* The lines that follow the read loop, with len(full_response) < 10.
ResultOfShorter(t) ==
    IF Len(t) < 10 /\ IsAlnumText(t)
    THEN [type |-> "captcha", result |-> UpperText(t)]
    ELSE [type |-> "text", result |-> Normalize(t)]

\* The lines that follow the read loop: type and result for the
\* accumulated text.
ResultOf(t) ==
    IF Len(t) <= 10 /\ IsAlnumText(t)
    THEN [type |-> "captcha", result |-> UpperText(t)]
    ELSE [type |-> "text", result |-> Normalize(t)]

\* What the code after the loop makes of the locals: the result for the
\* raw text, or the OCRError of an empty answer.  The handler of Exception
\* around the block raises every exception again as an OCRError without status.
NoOut == [kind |-> "none", text |-> << >>, exc |-> NoExc, type |-> "none", result |-> << >>]
Returned(text) ==
    [kind |-> "return", text |-> text, exc |-> NoExc,
     type |-> ResultOf(text).type, result |-> ResultOf(text).result]
Raised(e) == [kind |-> "raise", text |-> << >>, exc |-> e, type |-> "none", result |-> << >>]

AfterLoopNoEmptyCheck(l) ==
    LET finished == l.is_finished \/ l.has_content
    IN  IF ~finished /\ ~l.has_content THEN Raised(Exc("OCRError", 0))
        ELSE Returned(l.full_response)

AfterLoop(l) ==
    LET finished == l.is_finished \/ l.has_content
    IN  IF ~finished /\ ~l.has_content THEN Raised(Exc("OCRError", 0))
        ELSE IF l.full_response = << >> THEN Raised(Exc("OCRError", 0))
        ELSE Returned(l.full_response)

IdleStream ==
    [pc |-> "idle", input |-> << >>, ending |-> "eof", rest |-> << >>,
     locals |-> InitLocals, out |-> NoOut]

\* The service answers the completion request with a 2xx status and the
\* code starts to read the lines.
StreamOpen ==
    /\ strm.pc = "idle"
    /\ \E lines \in SeqsUpTo(Lines, MaxLines), ending \in Endings :
          strm' = [IdleStream EXCEPT !.pc = "reading", !.input = lines, !.ending = ending,
                                     !.rest = lines]
    /\ UNCHANGED <<pipeVars, batchVars>>

\* aiter_lines yields the next line and the loop body runs over it.
StreamLine ==
    /\ strm.pc = "reading"
    /\ strm.rest # << >>
    /\ LET l == LineStep(strm.locals, Head(strm.rest))
       IN  strm' = CASE l.go = "raise" ->
                          [strm EXCEPT !.pc = "done", !.locals = l,
                                       !.out = Raised(Exc("OCRError", 0))]
                     [] l.go = "break" -> [strm EXCEPT !.pc = "closing", !.locals = l]
                     [] OTHER -> [strm EXCEPT !.rest = Tail(@), !.locals = l]
    /\ UNCHANGED <<pipeVars, batchVars>>

\* aiter_lines is exhausted.
StreamEof ==
    /\ strm.pc = "reading"
    /\ strm.rest = << >>
    /\ strm.ending = "eof"
    /\ strm' = [strm EXCEPT !.pc = "closing"]
    /\ UNCHANGED <<pipeVars, batchVars>>

\* aiter_lines raises an httpx.HTTPError without response.
StreamReset ==
    /\ strm.pc = "reading"
    /\ strm.rest = << >>
    /\ strm.ending = "reset"
    /\ strm' = [strm EXCEPT !.pc = "done", !.out = Raised(Exc("OCRError", 0))]
    /\ UNCHANGED <<pipeVars, batchVars>>

\* The response is closed and the code after the loop runs.
StreamClose ==
    /\ strm.pc = "closing"
    /\ strm' = [strm EXCEPT !.pc = "done", !.out = AfterLoop(strm.locals)]
    /\ UNCHANGED <<pipeVars, batchVars>>

\* The accumulated texts the result is computed for: every text of up to
\* MaxTextLen characters, alone and between two letters, and texts of
\* letters and digits of 9, 10 and 11 characters.
Texts ==
    LET short == SeqsUpTo(TextChars, MaxTextLen)
        Fill(n) == [k \in 1..n |-> IF k % 3 = 0 THEN "7" ELSE IF k % 3 = 1 THEN "a" ELSE "Z"]
    IN  short \cup {<<"a">> \o t \o <<"Z">> : t \in short}
              \cup {Fill(n) : n \in {9, 10, 11}}
              \cup {Fill(9) \o <<c>> : c \in TextChars}

\* The read loop has ended with the accumulated text t.
StreamRead ==
    /\ strm.pc = "idle"
    /\ \E t \in Texts :
          strm' = [IdleStream EXCEPT !.pc = "closing",
                                     !.locals = Locals(t, FALSE, t # << >>, "next")]
    /\ UNCHANGED <<pipeVars, batchVars>>

(***************************************************************************)
(* routers/pdf_ocr.py: natural order of the archive's entries.             *)
(*                                                                         *)
(* A file name is the sequence of its characters.  Alphabet lists the      *)
(* characters the names are made of in code point order; "fw1" is the      *)
(* full-width digit one (U+FF11), a digit for str.isdigit() and int() but  *)
(* not for the pattern [0-9].                                              *)
(***************************************************************************)
Alphabet == <<".", "0", "1", "2", "3", "4", "5", "6", "7", "8", "9",
              "G", "I", "M", "b", "g", "i", "m", "n", "p", "t", "x", "fw1">>

Code(c) == CHOOSE k \in 1..Len(Alphabet) : Alphabet[k] = c
IsDigit(c) == c \in {"0", "1", "2", "3", "4", "5", "6", "7", "8", "9"}

\* str.lower()
LowerText(t) ==
    LET Lower(c) == CASE c = "G" -> "g" [] c = "I" -> "i" [] c = "M" -> "m" [] OTHER -> c
    IN  [k \in 1..Len(t) |-> Lower(t[k])]

RECURSIVE IntOf(_)
IntOf(digits) ==
    IF digits = << >> THEN 0
    ELSE 10 * IntOf(SubSeq(digits, 1, Len(digits) - 1))
            + (IF digits[Len(digits)] = "fw1" THEN 1 ELSE Code(digits[Len(digits)]) - Code("0"))

\* re.split('([0-9]+)', s): texts at the odd positions, digit runs at the
\* even ones; a name that starts or ends with a digit gets an empty text.
RECURSIVE Split(_, _, _, _)
Split(s, parts, cur, inDigits) ==
    IF s = << >> THEN (IF inDigits THEN Append(Append(parts, cur), << >>) ELSE Append(parts, cur))
    ELSE IF IsDigit(Head(s)) = inDigits THEN Split(Tail(s), parts, Append(cur, Head(s)), inDigits)
    ELSE Split(Tail(s), Append(parts, cur), <<Head(s)>>, ~inDigits)

\* A part of the key: int(text) for a digit run, text.lower() for a text
\* ("".isdigit() is false).
natural_sort_key(s) ==
    LET parts == Split(s, << >>, << >>, FALSE)
    IN  [k \in 1..Len(parts) |->
            IF parts[k] # << >> /\ \A j \in 1..Len(parts[k]) :
                                      IsDigit(parts[k][j]) \/ parts[k][j] = "fw1"
            THEN [isInt |-> TRUE, n |-> IntOf(parts[k]), text |-> << >>]
            ELSE [isInt |-> FALSE, n |-> 0, text |-> LowerText(parts[k])]]

\* Python's < on two str and on two lists of parts.
RECURSIVE TextLess(_, _)
TextLess(a, b) ==
    IF b = << >> THEN FALSE
    ELSE IF a = << >> THEN TRUE
    ELSE IF Head(a) # Head(b) THEN Code(Head(a)) < Code(Head(b))
    ELSE TextLess(Tail(a), Tail(b))

RECURSIVE KeyLess(_, _)
KeyLess(a, b) ==
    IF b = << >> THEN FALSE
    ELSE IF a = << >> THEN TRUE
    ELSE IF Head(a) = Head(b) THEN KeyLess(Tail(a), Tail(b))
    ELSE IF Head(a).isInt /\ Head(b).isInt THEN Head(a).n < Head(b).n
    ELSE TextLess(Head(a).text, Head(b).text)

\* Python's < on two lists of parts raises TypeError when the first parts
\* that differ are an int and a str.
RECURSIVE KeyCompareRaises(_, _)
KeyCompareRaises(a, b) ==
    IF a = << >> \/ b = << >> THEN FALSE
    ELSE IF Head(a) = Head(b) THEN KeyCompareRaises(Tail(a), Tail(b))
    ELSE Head(a).isInt # Head(b).isInt

\* sorted raises: it compares the keys of two names that cannot be
\* compared.  (A list of two names has one comparison; for longer lists
\* the model only has names that can all be compared or none.)
SortRaises(names) ==
    \E j, k \in 1..Len(names) :
        j < k /\ KeyCompareRaises(natural_sort_key(names[j]), natural_sort_key(names[k]))

\* sorted(names, key=natural_sort_key): stable, so a name comes after the
\* names with a smaller key and after the earlier names with an equal key.
Sorted(names) ==
    LET less(j, k) == KeyLess(natural_sort_key(names[j]), natural_sort_key(names[k]))
        before(k) == {j \in 1..Len(names) : less(j, k) \/ (j < k /\ ~less(k, j))}
    IN  [p \in 1..Len(names) |->
            names[CHOOSE k \in 1..Len(names) : Cardinality(before(k)) = p - 1]]

\* f.lower().endswith(('.png', '.jpg', '.jpeg', '.gif', '.bmp')), for the
\* extensions the names of the model have.
IsImage(name) ==
    LET EndsWith(s, suffix) ==
            Len(s) >= Len(suffix) /\ SubSeq(s, Len(s) - Len(suffix) + 1, Len(s)) = suffix
    IN  \E ext \in {<<".", "p", "n", "g">>, <<".", "b", "m", "p">>} : EndsWith(LowerText(name), ext)

\* f"{index:04d}"
Pad4(index) ==
    LET d(k) == Alphabet[Code("0") + k]
    IN  IF index < 10000
        THEN <<d(index \div 1000), d((index \div 100) % 10), d((index \div 10) % 10), d(index % 10)>>
        ELSE <<d(index \div 10000)>> \o <<d((index \div 1000) % 10), d((index \div 100) % 10),
                                           d((index \div 10) % 10), d(index % 10)>>

(***************************************************************************)
(* routers/pdf_ocr.py: the batch task.                                     *)
(*                                                                         *)
(* asyncio runs the first step of every task gather() creates in the order *)
(* of creation, before any callback that is registered later: every        *)
(* process_single_image coroutine has taken its first step before the      *)
(* first write of task.json one of them started completes.                 *)
(*                                                                         *)
(* save_task_data suspends in aiofiles.open, which truncates the file, and *)
(* in the write and close that follow; json.dumps(data) is evaluated       *)
(* between the two.  Each open file has its own offset: text written over  *)
(* a longer text another coroutine wrote after the truncation leaves the   *)
(* tail of the longer text in the file.                                    *)
(***************************************************************************)
\* What is submitted: bytes that are no ZIP archive, or an archive with its
\* namelist().
NotZip == [valid |-> FALSE, names |-> << >>]
Archives ==
    LET Zip(names) == [valid |-> TRUE, names |-> names]
        Png(stem) == stem \o <<".", "p", "n", "g">>
        d(j) == Alphabet[Code("0") + j]
        NumStr(k) == IF k < 10 THEN <<d(k)>> ELSE <<d(k \div 10), d(k % 10)>>
    IN  { NotZip,
          Zip(<< <<"n", "x", ".", "t", "x", "t">> >>),
          Zip(<< Png(<<"i", "m", "g", "1", "0">>), <<"b", ".", "t", "x", "t">>,
                 Png(<<"i", "m", "g", "2">>), Png(<<"I", "M", "G", "1">>) >>),
          Zip([k \in 1..MaxImages |-> Png(NumStr(MaxImages + 1 - k))]) }

NoTask_data ==
    [status |-> "none", total_images |-> 0, processed_images |-> 0, results |-> << >>,
     errors |-> << >>, error |-> "none", completed_at |-> FALSE]

\* task.json: no file, a truncated file, a complete text, or a text with
\* the tail of a longer one.
Absent == [state |-> "absent", data |-> NoTask_data]
Truncated == [state |-> "empty", data |-> NoTask_data]
Text(data) == [state |-> "text", data |-> data]
Corrupt == [state |-> "corrupt", data |-> NoTask_data]

\* The file after the write and close of a coroutine that dumped snap.
\* Every change of task_data makes its JSON text longer: a record is
\* appended, or completed_at turns from null into a timestamp.
Overwrite(old, snap) ==
    LET size(d) == Len(d.results) + Len(d.errors) + (IF d.completed_at THEN 1 ELSE 0)
                      + (IF d.error # "none" THEN 1 ELSE 0) + (IF d.total_images > 0 THEN 1 ELSE 0)
    IN  IF old.state \in {"text", "corrupt"} /\ (old.state = "corrupt" \/ size(old.data) > size(snap))
        THEN Corrupt
        ELSE Text(snap)

\* A coroutine: where it is, what it awaits of save_task_data ("none",
\* "open", "write"), the text it dumped and the exception its body raised.
Co(pc, io, snap, exc) == [pc |-> pc, io |-> io, snap |-> snap, exc |-> exc]
IdleMain == Co("idle", "none", NoTask_data, "none")
NewImg == Co("new", "none", NoTask_data, "none")

Images == 1..Len(img)

\* The with block of zipfile.ZipFile has been left.
ZipClosed == main.pc \in {"save189", "end", "crashed"}

\* The except branch of process_images up to its save_task_data call.
Fail(d, e) == [d EXCEPT !.status = "failed", !.error = e, !.completed_at = TRUE]

\* create_zip_ocr_task: the pending record is written and process_images is
\* scheduled.
BatchSubmit ==
    /\ main.pc = "idle"
    /\ \E a \in Archives : archive' = a
    /\ disk' = [disk EXCEPT !.task = Text([NoTask_data EXCEPT !.status = "pending"])]
    /\ main' = Co("scheduled", "none", NoTask_data, "none")
    /\ UNCHANGED <<pipeVars, strm, reply, image_files, img, task_data, upload_semaphore, saveFaults>>

\* Archives of two images, for the order of any two names.
SortNames ==
    LET Png(stem) == stem \o <<".", "p", "n", "g">>
    IN  {Png(stem) : stem \in {<<"i", "m", "g", "1">>, <<"i", "m", "g", "2">>,
                               <<"i", "m", "g", "1", "0">>, <<"I", "M", "G", "2">>,
                               <<"i", "m", "g">>, <<"b">>, <<"2">>, <<"1", "0">>,
                               <<"2", "b">>, <<"M", "0", "2", "b">>, <<"fw1", "2">>}}
SortArchives ==
    {[valid |-> TRUE, names |-> <<p[1], p[2]>>] :
        p \in {q \in SortNames \X SortNames : q[1] # q[2]}}

\* create_zip_ocr_task for an archive of two images.
BatchSubmitTwo ==
    /\ main.pc = "idle"
    /\ \E a \in SortArchives : archive' = a
    /\ disk' = [disk EXCEPT !.task = Text([NoTask_data EXCEPT !.status = "pending"])]
    /\ main' = Co("scheduled", "none", NoTask_data, "none")
    /\ UNCHANGED <<pipeVars, strm, reply, image_files, img, task_data, upload_semaphore, saveFaults>>

\* The names of the image entries of each archive, in natural order, and
\* whether sorting them raises.
SortedImages ==
    [a \in Archives \cup SortArchives |->
        [raises |-> SortRaises(SelectSeq(a.names, IsImage)),
         files |-> Sorted(SelectSeq(a.names, IsImage))]]

\* process_images up to its first save_task_data call, or up to the one of
\* its except branch when the bytes are no archive.
BatchStart ==
    /\ main.pc = "scheduled"
    /\ LET d == [NoTask_data EXCEPT !.status = "processing"]
           files == SortedImages[archive].files
       IN  IF ~archive.valid
           THEN /\ task_data' = Fail(d, "BadZipFile")
                /\ main' = Co("save189", "open", NoTask_data, "BadZipFile")
                /\ UNCHANGED image_files
           ELSE IF SortedImages[archive].raises
           THEN /\ task_data' = Fail(d, "TypeError")
                /\ main' = Co("save189", "open", NoTask_data, "TypeError")
                /\ UNCHANGED image_files
           ELSE /\ image_files' = files
                /\ task_data' = [d EXCEPT !.total_images = Len(files)]
                /\ main' = Co("save107", "open", NoTask_data, "none")
    /\ UNCHANGED <<pipeVars, strm, reply, archive, img, disk, upload_semaphore, saveFaults>>

\* aiofiles.open returns to a coroutine: the file is truncated and the
\* coroutine dumps task_data.
TaskSaveOpened(c) ==
    /\ c.io = "open"
    /\ Cardinality({i \in Images : img[i].io = "write"}) + (IF main.io = "write" THEN 1 ELSE 0)
          < (IF Len(image_files) <= MaxRacingImages THEN MaxOpenWrites ELSE 1)
    /\ disk' = [disk EXCEPT !.task = Truncated]

\* The write and close return to a coroutine.
TaskSaveWritten(c) ==
    /\ c.io = "write"
    /\ disk' = [disk EXCEPT !.task = Overwrite(@, c.snap)]

\* aiofiles.open raises OSError.
TaskSaveRaises(c) ==
    /\ c.io = "open"
    /\ saveFaults < MaxSaveFaults
    /\ Len(image_files) <= MaxRacingImages
    /\ saveFaults' = saveFaults + 1

\* process_images goes on after the save_task_data call it was in: an empty
\* image list raises ValueError, else the coroutines are created and
\* gathered; after the last write the task is over.
MainAfterSaveNoCheck ==
    /\ IF main.pc = "save107"
       THEN /\ main' = Co("gather", "none", NoTask_data, "none")
            /\ img' = [k \in 1..Len(image_files) |-> NewImg]
            /\ UNCHANGED task_data
       ELSE /\ main' = Co("end", "none", NoTask_data, main.exc)
            /\ UNCHANGED <<img, task_data>>

MainAfterSave ==
    /\ IF main.pc = "save107"
       THEN IF image_files = << >>
            THEN /\ task_data' = Fail(task_data, "ValueError")
                 /\ main' = Co("save189", "open", NoTask_data, "ValueError")
                 /\ UNCHANGED img
            ELSE /\ main' = Co("gather", "none", NoTask_data, "none")
                 /\ img' = [k \in 1..Len(image_files) |-> NewImg]
                 /\ UNCHANGED task_data
       ELSE /\ main' = Co("end", "none", NoTask_data, main.exc)
            /\ UNCHANGED <<img, task_data>>

MainSaveOpened ==
    /\ TaskSaveOpened(main)
    /\ main' = [main EXCEPT !.io = "write", !.snap = task_data]
    /\ UNCHANGED <<pipeVars, strm, reply, archive, image_files, img, task_data, upload_semaphore, saveFaults>>

MainSaveWritten ==
    /\ TaskSaveWritten(main)
    /\ MainAfterSave
    /\ UNCHANGED <<pipeVars, strm, reply, archive, image_files, upload_semaphore, saveFaults>>

\* A save_task_data call of process_images raises: inside the try the
\* except branch runs, inside the except branch process_images raises.
MainSaveRaises ==
    /\ TaskSaveRaises(main)
    /\ IF main.pc = "save189"
       THEN /\ main' = Co("crashed", "none", NoTask_data, "OSError")
            /\ UNCHANGED task_data
       ELSE /\ task_data' = Fail(task_data, "OSError")
            /\ main' = Co("save189", "open", NoTask_data, "OSError")
    /\ UNCHANGED <<pipeVars, strm, reply, archive, image_files, img, disk, upload_semaphore>>

\* A release that wakes no waiter.
ReleaseNoWake(sem, i) == [sem EXCEPT !.value = @ + 1, !.inside = @ \ {i}]

\* upload_semaphore.release(): the value goes up and the first waiter, if
\* there is one, takes it.
Release(sem, i) ==
    IF sem.waiters = << >>
    THEN [sem EXCEPT !.value = @ + 1, !.inside = @ \ {i}]
    ELSE [sem EXCEPT !.waiters = Tail(@), !.inside = (@ \ {i}) \cup {Head(sem.waiters)}]

\* The body without its handler: the exception ends the coroutine.
ImgBodyUncaught(i) ==
    /\ img' = [img EXCEPT ![i] = Co("raised", "none", NoTask_data, "TypeError")]
    /\ UNCHANGED task_data

\* The block of upload_semaphore up to the first await that suspends.
\* zip_file.read raises ValueError on a closed archive; otherwise the call
\* upload_image_info(image_bytes=..., filename=..., token=cookie,
\* cookie=cookie) raises TypeError, upload_image_info having no parameter
\* token.  Either is caught by the handler of the block, which appends the
\* error record and calls save_task_data.  Nothing after the call of
\* upload_image_info is ever executed: not the block of chat_semaphore, not
\* recognize_image, not save_content_file, not the append of a result
\* record.
ImgBody(i) ==
    LET e == IF ZipClosed THEN "ValueError" ELSE "TypeError"
    IN  /\ task_data' = [task_data EXCEPT
                            !.errors = Append(@, [filename |-> image_files[i], error |-> e])]
        /\ img' = [img EXCEPT ![i] = Co("save171", "open", NoTask_data, e)]

\* upload_semaphore.acquire() whatever the value is.
ImgFirstNoLimit(i) ==
    /\ img[i].pc = "new"
    /\ \A j \in 1..(i - 1) : img[j].pc # "new"
    /\ upload_semaphore' = [upload_semaphore EXCEPT !.value = @ - 1, !.inside = @ \cup {i}]
    /\ ImgBody(i)

\* The first step of process_single_image(image_files[i], i - 1):
\* upload_semaphore.acquire() returns at once when the value is positive,
\* else the coroutine joins the waiters.
ImgFirst(i) ==
    /\ img[i].pc = "new"
    /\ \A j \in 1..(i - 1) : img[j].pc # "new"
    /\ IF upload_semaphore.value > 0
       THEN /\ upload_semaphore' = [upload_semaphore EXCEPT !.value = @ - 1, !.inside = @ \cup {i}]
            /\ ImgBody(i)
       ELSE /\ upload_semaphore' = [upload_semaphore EXCEPT !.waiters = Append(@, i)]
            /\ img' = [img EXCEPT ![i] = Co("waiting", "none", NoTask_data, "none")]
            /\ UNCHANGED task_data

ImgStart ==
    /\ \E i \in Images : ImgFirst(i)
    /\ UNCHANGED <<pipeVars, strm, reply, archive, image_files, main, disk, saveFaults>>

\* A waiter that was given the semaphore resumes.
ImgResume ==
    /\ \E i \in Images :
          /\ img[i].pc = "waiting"
          /\ i \in upload_semaphore.inside
          /\ ImgBody(i)
    /\ UNCHANGED <<pipeVars, strm, reply, archive, image_files, main, disk, upload_semaphore, saveFaults>>

AllStarted == \A i \in Images : img[i].pc # "new"

ImgSaveOpened ==
    /\ AllStarted
    /\ \E i \in Images :
          /\ TaskSaveOpened(img[i])
          /\ img' = [img EXCEPT ![i].io = "write", ![i].snap = task_data]
    /\ UNCHANGED <<pipeVars, strm, reply, archive, image_files, main, task_data, upload_semaphore, saveFaults>>

\* The record of the image is written: the block of upload_semaphore is
\* left and the coroutine ends.
ImgSaveWritten ==
    /\ \E i \in Images :
          /\ TaskSaveWritten(img[i])
          /\ img' = [img EXCEPT ![i] = Co("done", "none", NoTask_data, img[i].exc)]
          /\ upload_semaphore' = Release(upload_semaphore, i)
    /\ UNCHANGED <<pipeVars, strm, reply, archive, image_files, main, task_data, saveFaults>>

\* save_task_data raises inside the handler: the exception leaves the block
\* of upload_semaphore and ends the coroutine.
ImgSaveRaises ==
    /\ AllStarted
    /\ \E i \in Images :
          /\ TaskSaveRaises(img[i])
          /\ img' = [img EXCEPT ![i] = Co("raised", "none", NoTask_data, img[i].exc)]
          /\ upload_semaphore' = Release(upload_semaphore, i)
    /\ UNCHANGED <<pipeVars, strm, reply, archive, image_files, main, task_data, disk>>

\* gather returning with the first coroutine that returns.
GatherReturnsEarly ==
    /\ main.pc = "gather"
    /\ \E i \in Images : img[i].pc = "done"
    /\ task_data' = [task_data EXCEPT !.status = "completed", !.completed_at = TRUE]
    /\ main' = Co("save182", "open", NoTask_data, "none")
    /\ UNCHANGED <<pipeVars, strm, reply, archive, image_files, img, disk, upload_semaphore, saveFaults>>

\* gather returns when every coroutine has returned: the task is completed.
GatherReturns ==
    /\ main.pc = "gather"
    /\ \A i \in Images : img[i].pc = "done"
    /\ task_data' = [task_data EXCEPT !.status = "completed", !.completed_at = TRUE]
    /\ main' = Co("save182", "open", NoTask_data, "none")
    /\ UNCHANGED <<pipeVars, strm, reply, archive, image_files, img, disk, upload_semaphore, saveFaults>>

\* gather raises the first exception of a coroutine while the others go on:
\* the archive is closed and the except branch of process_images runs.
GatherRaises ==
    /\ main.pc = "gather"
    /\ \E i \in Images : img[i].pc = "raised"
    /\ task_data' = Fail(task_data, "OSError")
    /\ main' = Co("save189", "open", NoTask_data, "OSError")
    /\ UNCHANGED <<pipeVars, strm, reply, archive, image_files, img, disk, upload_semaphore, saveFaults>>

(***************************************************************************)
(* The store with its callers.                                             *)
(***************************************************************************)
InitAccounts ==
    << [username |-> "alice", password |-> "pw", cookie |-> CookieOf(1),
        token |-> [id |-> 1, exp |-> TokenLife], expires_at |-> TokenLife, enabled |-> TRUE],
       [username |-> "bob", password |-> NoPassword, cookie |-> CookieOf(2),
        token |-> [id |-> 2, exp |-> 0], expires_at |-> 0, enabled |-> TRUE] >>

\* f"{file_prefix}.txt"
Txt(stem) == stem \o <<".", "t", "x", "t">>

\* sorted(task_data["results"], key=lambda x: x["content_file"])
ByContentFile(records) ==
    LET less(j, k) == TextLess(records[j].content_file, records[k].content_file)
        before(k) == {j \in 1..Len(records) : less(j, k) \/ (j < k /\ ~less(k, j))}
    IN  [p \in 1..Len(records) |->
            records[CHOOSE k \in 1..Len(records) : Cardinality(before(k)) = p - 1]]

(***************************************************************************)
(* routers/pdf_ocr.py: get_zip_ocr_content.                                *)
(*                                                                         *)
(* disk.content maps the stem of each content file that can be read to its *)
(* text; a file that is missing or cannot be read is not in its domain.    *)
(***************************************************************************)
NoReply == [code |-> 0, body |-> << >>]
Reply(code, body) == [code |-> code, body |-> body]

\* "\n\n".join(contents)
RECURSIVE Join(_)
Join(contents) ==
    IF contents = << >> THEN << >>
    ELSE IF Len(contents) = 1 THEN contents[1]
    ELSE contents[1] \o <<"nl", "nl">> \o Join(Tail(contents))

\* The loop over the sorted result records: the text of each content file
\* that can be read, the others skipped.
RECURSIVE ReadContents(_, _)
ReadContents(records, content) ==
    IF records = << >> THEN << >>
    ELSE LET stem == SubSeq(records[1].content_file, 1, Len(records[1].content_file) - 4)
         IN  (IF stem \in DOMAIN content THEN <<content[stem]>> ELSE << >>)
                \o ReadContents(Tail(records), content)

\* get_zip_ocr_content answering for every status.
ContentReplyAnyStatus(d) ==
    CASE d.task.state = "absent" -> Reply(404, << >>)
      [] d.task.state \in {"empty", "corrupt"} -> Reply(500, << >>)
      [] OTHER -> Reply(200, Join(ReadContents(ByContentFile(d.task.data.results), d.content)))

\* get_zip_ocr_content on the task directory d: load_task_data answers 404
\* when task.json is missing, and json.loads raises on a text that is no
\* JSON document (status 500); a status other than completed is answered
\* with 400.
ContentReply(d) ==
    CASE d.task.state = "absent" -> Reply(404, << >>)
      [] d.task.state \in {"empty", "corrupt"} -> Reply(500, << >>)
      [] d.task.data.status # "completed" -> Reply(400, << >>)
      [] OTHER -> Reply(200, Join(ReadContents(ByContentFile(d.task.data.results), d.content)))

\* The task directories a content request may find: task.json missing,
\* cut short, or holding a record of any status with up to two results,
\* and each content file readable or not.
TaskDirs ==
    LET stems == {Pad4(0), Pad4(1)}
        rec(stem) == [filename |-> <<"i", "m", "g">> \o stem, content_file |-> Txt(stem)]
        results == {<< >>} \cup {<<rec(x)>> : x \in stems}
                     \cup {<<rec(p[1]), rec(p[2])>> : p \in {q \in stems \X stems : q[1] # q[2]}}
        data == {[NoTask_data EXCEPT !.status = st, !.results = r, !.processed_images = Len(r),
                                     !.total_images = Len(r)] :
                    st \in {"pending", "processing", "failed", "completed"}, r \in results}
        contents == UNION {[S -> {<<"a">>, <<"b", "nl">>}] : S \in SUBSET stems}
    IN  {[task |-> t, content |-> c] :
            t \in {Absent, Truncated, Corrupt} \cup {Text(x) : x \in data}, c \in contents}

\* A task directory as an earlier batch left it.
ContentDir ==
    /\ main.pc = "idle"
    /\ disk = [task |-> Absent, content |-> << >>]
    /\ reply = NoReply
    /\ \E d \in TaskDirs : disk' = d
    /\ UNCHANGED <<pipeVars, strm, archive, image_files, main, img, task_data,
                   upload_semaphore, saveFaults, reply>>

\* GET /api/zip/ocr/{task_id}/content on a task directory at rest.
GetContent ==
    /\ reply = NoReply
    /\ reply' = ContentReply(disk)
    /\ UNCHANGED <<pipeVars, strm, archive, image_files, main, img, task_data, disk,
                   upload_semaphore, saveFaults>>

\* The state after construction, no request received yet; accs are the
\* accounts of config.yaml, p is the idle recognition pipeline with the
\* remote side's failures of the behaviour, and n counts the requests the
\* behaviour leaves out.
InitWith(accs, p, n) ==
    /\ now = 0
    /\ ticks = 0
    /\ accounts = accs
    /\ lastLoadTime = 0
    /\ dirty = FALSE
    /\ timer = NoTask
    /\ zombie = NoTask
    /\ saveLock = "free"
    /\ file = [accounts |-> accs, complete |-> TRUE, mtime |-> 0]
    /\ tmp = [exists |-> FALSE, complete |-> FALSE, accounts |-> << >>]
    /\ ops = n
    /\ edited = FALSE
    /\ nSignin = 0
    /\ signinLog = << >>
    /\ caller = IdleCallers
    /\ authFailed = [u \in Users |-> FALSE]
    /\ off = [u \in Users |-> FALSE]
    /\ burst = [expect |-> accs, tight |-> TRUE]
    /\ pipe = p
    /\ hist = NoHist
    /\ strm = IdleStream
    /\ archive = NotZip
    /\ image_files = << >>
    /\ main = IdleMain
    /\ img = << >>
    /\ task_data = NoTask_data
    /\ disk = [task |-> Absent, content |-> << >>]
    /\ reply = NoReply
    /\ upload_semaphore = [value |-> UploadLimit, waiters |-> << >>, inside |-> {}]
    /\ saveFaults = 0

Init == InitWith(InitAccounts, IdlePipe, 0)

\* One request, to which the remote side fails up to MaxAmpFaults times
\* with status 500; the first account holds a token that is valid for a day.
AmpFails == {"s500"}
AmpAccounts ==
    [InitAccounts EXCEPT ![1].token.exp = DayLen, ![1].expires_at = DayLen]
InitAmp ==
    InitWith(AmpAccounts, [IdlePipe EXCEPT !.budget = MaxAmpFaults, !.fails = AmpFails], MaxOps - 1)

\* The debounced save task.
SaveTask ==
    \/ SaveWake
    \/ SaveLockAcquired
    \/ SaveOpened
    \/ SaveWritten
    \/ SaveReplaced
    \/ SaveIOError
    \/ CancelDelivered

\* The account store, its file and every way an account changes.
Next ==
    \/ Tick
    \/ ExternalEdit
    \/ Restart
    \/ ReadAccounts
    \/ AddAccount
    \/ RemoveAccount
    \/ EnableAccount
    \/ DisableAccount
    \/ LoginOk
    \/ LoginFail
    \/ SaveTask

Spec == Init /\ [][Next]_vars

\* The token supplier over the store: concurrent _get_valid_token calls, the
\* enable and disable requests, the clock and the save task.
NextToken ==
    \/ Tick
    \/ Restart
    \/ ReadAccounts
    \/ EnableAccount
    \/ DisableAccount
    \/ GetValidToken
    \/ SaveTask

SpecToken == Init /\ [][NextToken]_vars

\* A recognition request over the store: the pipeline, the clock and the
\* save task.
NextPipe ==
    \/ PipeTick
    \/ SaveTask
    \/ PipeStart
    \/ PipeInvoke
    \/ PipeToken
    \/ PipeSigninOk
    \/ PipeSigninFail
    \/ PipeAnswer
    \/ PipeCatch
    \/ PipeWake
    \/ PipeReturn
    \/ PipeRaise

SpecPipe == Init /\ [][NextPipe]_vars

\* Every call a recognition request awaits returns or raises, its sleeps
\* end, and the save task runs.
PipeProgress ==
    \/ SaveTask
    \/ PipeInvoke
    \/ PipeToken
    \/ PipeSigninOk
    \/ PipeAnswer
    \/ PipeCatch
    \/ PipeWake
    \/ PipeReturn
    \/ PipeRaise

SpecPipeFair == SpecPipe /\ WF_vars(PipeProgress)

\* One recognition request against a remote side that keeps failing.
NextAmp ==
    \/ PipeStart
    \/ PipeInvoke
    \/ PipeToken
    \/ PipeAnswer
    \/ PipeCatch
    \/ PipeWake
    \/ PipeReturn
    \/ PipeRaise

SpecAmp == InitAmp /\ [][NextAmp]_vars

\* One streamed completion response read to its end.
NextStream ==
    \/ StreamOpen
    \/ StreamLine
    \/ StreamEof
    \/ StreamReset
    \/ StreamClose

SpecStream == Init /\ [][NextStream]_vars

\* The result of one completion, for the texts the read loop may leave.
NextResult ==
    \/ StreamRead
    \/ StreamClose

SpecResult == Init /\ [][NextResult]_vars

\* The order process_images gives to the two images of an archive.
NextSort ==
    \/ BatchSubmitTwo
    \/ BatchStart

SpecSort == Init /\ [][NextSort]_vars

\* A content request on a task directory.
NextContent ==
    \/ ContentDir
    \/ GetContent

SpecContent == Init /\ [][NextContent]_vars

\* One batch task.
NextBatch ==
    \/ BatchSubmit
    \/ BatchStart
    \/ MainSaveOpened
    \/ MainSaveWritten
    \/ MainSaveRaises
    \/ ImgStart
    \/ ImgResume
    \/ ImgSaveOpened
    \/ ImgSaveWritten
    \/ ImgSaveRaises
    \/ GatherReturns
    \/ GatherRaises

SpecBatch == Init /\ [][NextBatch]_vars

\* Every call a coroutine of the task awaits returns or raises, and the
\* event loop runs every coroutine that can go on.
BatchProgress ==
    \/ BatchStart
    \/ MainSaveOpened
    \/ MainSaveWritten
    \/ ImgStart
    \/ ImgResume
    \/ ImgSaveOpened
    \/ ImgSaveWritten
    \/ GatherReturns
    \/ GatherRaises

SpecBatchFair == SpecBatch /\ WF_vars(BatchProgress)

(***************************************************************************)
(* Claims about the token supplier and the account store.                  *)
(***************************************************************************)

\* C1: a _get_valid_token call whose cookie resolves to an account holding
\* a token with exp later than the current time returns that token: it
\* starts no sign-in, changes no account and schedules no save.
C1_CachedTokenNoSignin ==
    [][\A p \in Callers :
        LET i == GetAccountByCookie(LoadedAccounts, caller'[p].cookie) IN
        (/\ caller[p].pc = "idle"
         /\ caller'[p].pc # "idle"
         /\ i # 0
         /\ LoadedAccounts[i].token.id # 0
         /\ LoadedAccounts[i].token.exp > now)
        => /\ caller'[p].pc = "done"
           /\ caller'[p].result = "token"
           /\ caller'[p].token = LoadedAccounts[i].token
           /\ nSignin' = nSignin
           /\ accounts' = LoadedAccounts
           /\ UNCHANGED <<dirty, timer, zombie, file, tmp>>]_vars

\* C1's case: some time after the start a caller got alice's cached token,
\* and no sign-in request was ever made.
C1_Witness ==
    \E p \in Callers :
        /\ caller[p].pc = "done"
        /\ caller[p].result = "token"
        /\ caller[p].token = InitAccounts[1].token
        /\ now > 0
        /\ nSignin = 0

\* C2: an account whose sign-in failed stays disabled until enable_account
\* (or add_account with enabled) for it or a successful sign-in of it; no
\* reload of the cache and no save enables it.  (The operator has not
\* edited the file.)
C2_DisabledUntilReenabled ==
    \A u \in Users :
        (authFailed[u] /\ ~edited /\ HasUser(accounts, u))
            => ~AccountOf(accounts, u).enabled

\* C3: config.yaml always holds one complete document, and at most one
\* delayed_save is between opening the temp file and replacing config.yaml,
\* and it holds _save_lock.
C3_FileNeverPartial ==
    /\ file.complete
    /\ ~(InSave(timer) /\ InSave(zombie))
    /\ (InSave(timer) \/ InSave(zombie)) => saveLock = "held"

\* C3's case: a save was cancelled after it wrote the temp file and before
\* the rename, config.yaml still holds the version before, and the next
\* delayed_save waits for the lock.
C3_Witness ==
    /\ zombie.pc = "closing"
    /\ timer.pc = "waitlock"
    /\ tmp.complete
    /\ tmp.accounts # file.accounts
    /\ file.complete

\* C4: while a save is pending the in-memory list is the list the mutations
\* left (no reload discards them), and once the save has run the in-memory
\* list and the file agree.  (The operator has not edited the file.)
C4_MutationsKeptUntilSaved ==
    /\ (dirty /\ timer.pc = "sleeping" /\ ~edited) => accounts = burst.expect
    /\ (~dirty /\ timer.pc = "done" /\ ~edited) => accounts = file.accounts

\* C5: after mutations that each came less than _save_delay after the one
\* before, the write that follows holds the list after all of them.  (The
\* operator has not edited the file.)
C5_OneWriteHoldsAllMutations ==
    (~dirty /\ timer.pc = "done" /\ burst.tight /\ ~edited) => file.accounts = burst.expect

(***************************************************************************)
(* Claims about the retry wrapper and the pipeline.                        *)
(***************************************************************************)

\* C6: a retry_with_token_refresh call whose attempts all failed raises an
\* OCRError to its caller, whatever the last failure was (an HTTP status
\* error of any code, 401 included, a network error, any other exception).
C6_ExhaustedRaisesOCRError ==
    hist.wraised.type \in {"none", "OCRError"}

\* C7 as stated: one retry_with_token_refresh call attempts at most one
\* token refresh, however many of its attempts fail with HTTP 401.
C7_AtMostOneRefresh ==
    \A i \in 1..Len(pipe.stack) : pipe.stack[i].refreshes <= 1

\* C7 amended: one retry_with_token_refresh call attempts one token refresh
\* for every attempt that raised an httpx error with status 401 to it (none
\* without a cookie holding 'token=' among the arguments), up to max_retries
\* per call; a refresh that succeeds is followed by the next attempt (or the
\* end of the loop) without sleep, a refresh that fails by the backoff path.
C7_RefreshPerUnauthorized ==
    [][
        /\ \A i \in 1..Len(pipe.stack) :
              /\ pipe.stack[i].refreshes <= MaxRetries
              /\ (i < Len(pipe.stack) \/ pipe.pc # "raised") =>
                    (pipe.stack[i].refreshes =
                        IF HasTokenItem(pipe.cookie) THEN pipe.stack[i].seen401 ELSE 0)
        /\ (pipe.pc = "token" /\ pipe.site = "wrapper" /\ pipe'.pc # "token") =>
              LET d == TokenDecision(LoadedAccounts, pipe.cookie)
                  more == Top(pipe).attempt < MaxRetries - 1
              IN  pipe'.pc = CASE d.kind = "token" -> IF more THEN "call" ELSE "failed"
                               [] d.kind = "signin" -> "signin"
                               [] OTHER -> IF more THEN "sleep" ELSE "failed"
    ]_vars

\* C7's case: every attempt of one upload_image_info call was answered 401
\* and each of them was followed by a refresh.
C7_Witness ==
    /\ pipe.pc = "failed"
    /\ Top(pipe).op = "upload"
    /\ Top(pipe).seen401 = MaxRetries
    /\ Top(pipe).refreshes = MaxRetries

\* C8: after a 401 answer to the upload, the create-chat or the completion
\* request of a call with a cookie holding 'token=', the wrapper calls
\* _get_valid_token before it goes on: it never sleeps for the next attempt
\* with the 401 not followed by a refresh.
C8_UnauthorizedAlwaysRefreshes ==
    (pipe.pc = "sleep" /\ HasTokenItem(pipe.cookie)) => ~hist.ans401

\* C9: a create-chat request is in flight only after the upload of the same
\* process_image_url / process_base64_image attempt was answered with a file
\* id, and a completion request only after the create-chat of the same
\* _recognize_image attempt was answered with a chat, retries included.
C9_UploadChatCompletionInOrder ==
    /\ pipe.req.to = "chat" => (hist.upOk /\ pipe.req.file # 0)
    /\ pipe.req.to = "completion" => (hist.upOk /\ hist.chOk /\ pipe.req.file # 0)

\* C9's case: the completion request of a retried _recognize_image attempt
\* is in flight.
C9_Witness ==
    /\ pipe.req.to = "completion"
    /\ Top(pipe).op = "recognize"
    /\ Top(pipe).attempt > 0
    /\ hist.chOk

\* C10: the completion request carries the assistant message id the
\* successful _create_chat attempt of the same _recognize_image attempt put
\* into its request, and the chat id and session id its response named (the
\* chat id for a response without session_id).
C10_CompletionCarriesChatIds ==
    pipe.req.to = "completion" =>
        /\ hist.srvChat # NoChat
        /\ pipe.req.chat.assistant_msg_id = hist.srvChat.assistant_msg_id
        /\ pipe.req.chat.chat_id = hist.srvChat.chat_id
        /\ pipe.req.chat.session_id =
              IF hist.srvChat.session_id # 0 THEN hist.srvChat.session_id
              ELSE hist.srvChat.chat_id

\* C10's case: the completion request follows a create-chat that succeeded
\* only at its second or a later attempt, whose response named a session.
C10_Witness ==
    /\ pipe.req.to = "completion"
    /\ pipe.nUuid > 2
    /\ hist.srvChat.session_id # 0
    /\ pipe.req.chat.assistant_msg_id = pipe.nUuid

(***************************************************************************)
(* Claims about the streamed completion response.                          *)
(***************************************************************************)
StreamDone == strm.pc = "done"

\* The contents of the delta lines of a response, in arrival order, and
\* their number.
RECURSIVE DeltasOf(_)
DeltasOf(lines) ==
    IF lines = << >> THEN << >>
    ELSE (IF Head(lines).kind = "delta" THEN Head(lines).content ELSE << >>)
            \o DeltasOf(Tail(lines))

NumDeltas(lines) == Cardinality({i \in 1..Len(lines) : lines[i].kind = "delta"})

KindsOf(lines) == {lines[i].kind : i \in 1..Len(lines)}

\* C11: a response that delivers n >= 1 content deltas with a non-empty
\* concatenation and then ends without a finish signal (and without a
\* fragment the code cannot read or a network error) makes the completion
\* step return, and the raw text is the concatenation of the deltas in
\* arrival order.
C11_DeltasThenEofSucceeds ==
    (/\ StreamDone
     /\ strm.ending = "eof"
     /\ KindsOf(strm.input) \cap {"finish", "illtyped"} = {}
     /\ NumDeltas(strm.input) >= 1
     /\ DeltasOf(strm.input) # << >>)
        => strm.out = Returned(DeltasOf(strm.input))

C11_Witness ==
    /\ StreamDone
    /\ strm.ending = "eof"
    /\ KindsOf(strm.input) = {"delta"}
    /\ NumDeltas(strm.input) = MaxLines
    /\ strm.input[1].content # strm.input[MaxLines].content
    /\ \A i \in 1..MaxLines : strm.input[i].content # << >>
    /\ strm.out.kind = "return"

\* C12: whenever the accumulator is empty when the read loop has ended
\* (no finish signal and no delta, a finish signal before any delta, only
\* empty deltas) the completion step raises OCRError; it never returns an
\* empty raw text.
C12_EmptyAccumulatorFails ==
    /\ (StreamDone /\ strm.locals.full_response = << >>)
          => (strm.out.kind = "raise" /\ strm.out.exc.type = "OCRError")
    /\ strm.out.kind = "return" => strm.out.text # << >>

C12_Witness ==
    /\ StreamDone
    /\ strm.ending = "eof"
    /\ KindsOf(strm.input) = {"delta"}
    /\ Len(strm.input) = 2
    /\ strm.locals.has_content
    /\ strm.locals.full_response = << >>
    /\ strm.out.kind = "raise"

\* The outcome of reading a whole response, by the loop body and the code
\* after the loop.
RECURSIVE ReadAll(_, _)
ReadAll(l, lines) ==
    IF lines = << >> \/ l.go # "next" THEN l
    ELSE ReadAll(LineStep(l, Head(lines)), Tail(lines))

OutcomeOf(lines, ending) ==
    LET l == ReadAll(InitLocals, lines)
    IN  CASE l.go = "raise" -> Raised(Exc("OCRError", 0))
          [] l.go = "next" /\ ending = "reset" -> Raised(Exc("OCRError", 0))
          [] OTHER -> AfterLoop(l)

Skipped == {"blank", "noprefix", "malformed"}

RECURSIVE WithoutSkipped(_)
WithoutSkipped(lines) ==
    IF lines = << >> THEN << >>
    ELSE (IF Head(lines).kind \in Skipped THEN << >> ELSE <<Head(lines)>>)
            \o WithoutSkipped(Tail(lines))

\* C13: a blank line, a line without the "data: " prefix and a data line
\* with malformed JSON leave the accumulator and the flags as they are and
\* the loop goes on; the outcome of a response is the outcome of the same
\* response without those lines.
C13_SkippedLinesChangeNothing ==
    /\ [](StreamDone => strm.out = OutcomeOf(WithoutSkipped(strm.input), strm.ending))
    /\ [][(strm.pc = "reading" /\ strm.rest # << >> /\ Head(strm.rest).kind \in Skipped)
            => (strm'.pc = "reading" /\ strm'.locals = strm.locals
                    /\ strm'.rest = Tail(strm.rest))]_vars

C13_Witness ==
    /\ StreamDone
    /\ Len(strm.input) = MaxLines
    /\ strm.input[1].kind = "malformed"
    /\ strm.input[2].kind = "delta"
    /\ strm.input[3].kind \in {"blank", "noprefix"}
    /\ strm.out.kind = "return"

(***************************************************************************)
(* Claims about the batch task.                                            *)
(***************************************************************************)
\* process_images has ended and so has every process_single_image.
BatchOver ==
    /\ main.pc \in {"end", "crashed"}
    /\ \A i \in Images : img[i].pc \in {"done", "raised"}

RecordsOf(records, name) == {j \in 1..Len(records) : records[j].filename = name}

\* C14: for an archive with n >= 1 images, when no remote call fails (and
\* no write of task.json), the task ends with status completed,
\* processed_images = n, n result records and no error record.
C14_AllSucceedAllProcessed ==
    (BatchOver /\ Len(image_files) >= 1 /\ saveFaults = 0)
        => /\ task_data.status = "completed"
           /\ task_data.processed_images = Len(image_files)
           /\ Len(task_data.results) = Len(image_files)
           /\ task_data.errors = << >>

\* C15: an image whose upload or recognition raises gets exactly one error
\* record and no result record, the other images get their own record, and
\* (no write of task.json failing) the task ends with status completed and
\* one record per image, in task_data and in task.json.
C15_FailedImageGetsOneErrorRecord ==
    /\ \A i \in Images :
          /\ Cardinality(RecordsOf(task_data.errors, image_files[i]))
                = (IF img[i].exc = "none" THEN 0 ELSE 1)
          /\ img[i].exc # "none" => RecordsOf(task_data.results, image_files[i]) = {}
    /\ (BatchOver /\ Len(image_files) >= 1 /\ saveFaults = 0)
          => /\ task_data.status = "completed"
             /\ task_data.error = "none"
             /\ \A i \in Images :
                   Cardinality(RecordsOf(task_data.errors, image_files[i]))
                      + Cardinality(RecordsOf(task_data.results, image_files[i])) = 1
             /\ disk.task = Text(task_data)

C15_Witness ==
    /\ BatchOver
    /\ saveFaults = 0
    /\ Len(image_files) = 3
    /\ task_data.status = "completed"
    /\ \A i \in Images : img[i].exc = "TypeError"
    /\ Len(task_data.errors) = 3

\* C16: bytes that are no archive and an archive without an image entry
\* end the task with status failed and an error message; no
\* process_single_image coroutine is ever created for it (so no upload and
\* no recognition starts) and it has no result record.
C16_BadArchiveFails ==
    SelectSeq(archive.names, IsImage) = << >> =>
        /\ img = << >>
        /\ task_data.results = << >>
        /\ task_data.processed_images = 0
        /\ disk.content = << >>
        /\ BatchOver =>
              /\ task_data.status = "failed"
              /\ task_data.error \in (IF saveFaults = 0 THEN {} ELSE {"OSError"})
                    \cup (IF archive.valid THEN {"ValueError"} ELSE {"BadZipFile"})
              /\ saveFaults = 0 => disk.task = Text(task_data)

C16_Witness ==
    /\ BatchOver
    /\ archive.valid
    /\ archive.names # << >>
    /\ image_files = << >>
    /\ task_data.error = "ValueError"
    /\ disk.task = Text(task_data)

C18_UploadSlotOnlyForUpload ==
    \A i \in Images : img[i].exc # "none" => i \notin upload_semaphore.inside

\* C19: in a completed task the image at position k of the natural-sorted
\* list has the content file and the result record of the 4-digit
\* zero-padded k, and get_zip_ocr_content reads the content files in the
\* order of the list.
C19_ArtifactPerImageInOrder ==
    (BatchOver /\ task_data.status = "completed" /\ saveFaults = 0)
        => /\ \A k \in 1..Len(image_files) :
                 /\ Pad4(k - 1) \in DOMAIN disk.content
                 /\ \E j \in 1..Len(task_data.results) :
                       task_data.results[j] =
                          [filename |-> image_files[k], content_file |-> Txt(Pad4(k - 1))]
           /\ LET sorted == ByContentFile(task_data.results)
              IN  [k \in 1..Len(sorted) |-> sorted[k].filename] = image_files

Terminal(d) == d.status \in {"completed", "failed"}
Frozen(d) == <<d.status, d.results, d.errors, d.processed_images>>

\* C21: once task_data has status completed or failed no step changes its
\* status, results, errors or processed_images, and once task.json holds a
\* record with such a status no step writes the file again.
C21_TerminalAbsorbing ==
    [][/\ Terminal(task_data) => Frozen(task_data') = Frozen(task_data)
       /\ (disk.task.state = "text" /\ Terminal(disk.task.data)) => disk'.task = disk.task]_vars

\* The records of an account of the task: one per image at most, and as
\* many results as processed_images says.
Accounted(d) ==
    /\ d.processed_images = Len(d.results)
    /\ \A i \in Images :
          Cardinality(RecordsOf(d.results, image_files[i]))
             + Cardinality(RecordsOf(d.errors, image_files[i])) <= 1
    /\ d.processed_images + Len(d.errors) <= d.total_images
    /\ d.status = "completed" =>
          /\ \A i \in Images :
                Cardinality(RecordsOf(d.results, image_files[i]))
                   + Cardinality(RecordsOf(d.errors, image_files[i])) = 1
          /\ d.processed_images + Len(d.errors) = d.total_images
          /\ d.total_images = Len(image_files)

\* C22: in every state task_data, and task.json when it holds a complete
\* text, has processed_images equal to the number of result records, at
\* most one record per image, processed_images plus the number of error
\* records at most total_images, and with status completed one record for
\* every image, the sum being total_images.
C22_BatchAccounting ==
    /\ Accounted(task_data)
    /\ disk.task.state = "text" => Accounted(disk.task.data)

C22_Witness ==
    /\ disk.task.state = "text"
    /\ disk.task.data.status = "completed"
    /\ disk.task.data.total_images = 3
    /\ Len(disk.task.data.errors) = 3
    /\ BatchOver

(***************************************************************************)
(* Claims about signin, the token supplier and the lookup by cookie.       *)
(***************************************************************************)
\* C23: every signin call that fails raises AuthError to its caller and
\* leaves the account of its username disabled, and the AuthError of a
\* sign-in POST answered with an error status carries the status code and
\* the raw body.
C23_SigninFailureRaisesAuthError ==
    [][LET r == signinLog'[Len(signinLog')]
       IN  (Len(signinLog') > Len(signinLog) /\ r.kind # "ok")
              => /\ r.raised = "AuthError"
                 /\ HasUser(accounts', r.username) => ~AccountOf(accounts', r.username).enabled
                 /\ r.kind = "status" => (r.status # 0 /\ r.raw)]_vars

\* C24: a _get_valid_token call whose cookie resolves to no account, or to
\* an account without a valid token and without a password, raises
\* OCRError at once: no sign-in request is made, no account is changed and
\* no save is scheduled.
C24_NoAccountNoCredentialsFailFast ==
    [][\A p \in Callers :
        LET i == GetAccountByCookie(LoadedAccounts, caller'[p].cookie)
            a == LoadedAccounts[i]
        IN  (/\ caller[p].pc = "idle"
             /\ caller'[p].pc # "idle"
             /\ \/ i = 0
                \/ /\ ~(a.token.id # 0 /\ a.token.exp > now)
                   /\ a.password = NoPassword)
            => /\ caller'[p].pc = "done"
               /\ caller'[p].result = "OCRError"
               /\ nSignin' = nSignin
               /\ signinLog' = signinLog
               /\ accounts' = LoadedAccounts
               /\ UNCHANGED <<dirty, timer, zombie, file, tmp>>]_vars

\* C24's case: one call found no account for its cookie, another found bob,
\* whose token is expired and who has no password; both got OCRError and
\* no sign-in request was made.
C24_Witness ==
    /\ caller["c1"].pc = "done"
    /\ caller["c1"].result = "OCRError"
    /\ caller["c1"].username = ""
    /\ caller["c2"].pc = "done"
    /\ caller["c2"].result = "OCRError"
    /\ caller["c2"].username = "bob"
    /\ nSignin = 0

\* C25: when a _get_valid_token call returns the token of the sign-in it
\* made, the account of its username holds that token with the cookie and
\* the expires_at of that sign-in and is enabled, and a save is scheduled.
C25_RefreshStoredBeforeReturn ==
    [][\A p \in Callers :
        LET u == caller[p].username
            r == signinLog'[Len(signinLog')]
        IN  (caller[p].pc = "signin" /\ caller'[p].pc = "done" /\ caller'[p].result = "token")
            => /\ Len(signinLog') = Len(signinLog) + 1
               /\ r.kind = "ok"
               /\ r.username = u
               /\ caller'[p].token = r.token
               /\ HasUser(accounts', u)
               /\ AccountOf(accounts', u).token = r.token
               /\ AccountOf(accounts', u).cookie = r.cookie
               /\ AccountOf(accounts', u).expires_at = r.expires_at
               /\ AccountOf(accounts', u).enabled
               /\ dirty'
               /\ timer'.pc = "sleeping"
               /\ timer'.deadline = now + SaveDelay]_vars

\* C25's case: alice's token had expired, the call signed in and returned
\* the new token, which the store holds.
C25_Witness ==
    \E p \in Callers :
        /\ caller[p].pc = "done"
        /\ caller[p].result = "token"
        /\ caller[p].username = "alice"
        /\ caller[p].token.id > InitTokens
        /\ HasUser(accounts, "alice")
        /\ AccountOf(accounts, "alice").token = caller[p].token
        /\ dirty

\* A token, cookie and expires_at that one sign-in of u returned together.
FromOneSignin(u, tok, ck, exp) ==
    \E k \in 1..Len(signinLog) :
        /\ signinLog[k].kind = "ok"
        /\ signinLog[k].username = u
        /\ signinLog[k].token = tok
        /\ signinLog[k].cookie = ck
        /\ signinLog[k].expires_at = exp

\* C26: with _get_valid_token calls running concurrently, every call that
\* has ended returned the token of a sign-in that succeeded (or the cached
\* token that was valid) or raised OCRError, and the token, cookie and
\* expires_at of an account that holds a token of a sign-in, in memory and
\* in config.yaml, are those of one single sign-in.
C26_ConcurrentRefreshConsistent ==
    /\ \A p \in Callers :
          caller[p].pc = "done" =>
             \/ caller[p].result = "OCRError" /\ caller[p].token = NoToken
             \/ /\ caller[p].result = "token"
                /\ \/ caller[p].token \in {InitAccounts[i].token : i \in 1..Len(InitAccounts)}
                   \/ \E k \in 1..Len(signinLog) :
                         signinLog[k].kind = "ok" /\ signinLog[k].token = caller[p].token
    /\ \A l \in {accounts, file.accounts} : \A i \in 1..Len(l) :
          l[i].token.id > InitTokens
             => FromOneSignin(l[i].username, l[i].token, l[i].cookie, l[i].expires_at)

\* C26's case: two calls for alice, whose token had expired, began before
\* either sign-in was answered; both signed in and each returned its own token.
C26_Witness ==
    /\ caller["c1"].pc = "done"
    /\ caller["c2"].pc = "done"
    /\ caller["c1"].username = "alice"
    /\ caller["c2"].username = "alice"
    /\ caller["c1"].token.id > InitTokens
    /\ caller["c2"].token.id > InitTokens
    /\ caller["c1"].token # caller["c2"].token
    /\ caller["c1"].since = caller["c2"].since
    /\ AccountOf(accounts, "alice").token \in {caller["c1"].token, caller["c2"].token}

\* Account a and the parsed cookie input have key field f in common.
SharesField(a, input, f) ==
    f \in DOMAIN ParseCookie(a.cookie) /\ f \in DOMAIN input

\* What C27 asks of the account returned: enabled, with a cookie, at least
\* one key field present on both sides, and every such field equal.
MatchesOnKeyField(a, input) ==
    /\ a.enabled
    /\ a.cookie # NoCookie
    /\ \E f \in KeyFields : SharesField(a, input, f)
    /\ \A f \in KeyFields :
          SharesField(a, input, f) => ParseCookie(a.cookie)[f] = input[f]

\* C27: the account a _get_valid_token call works with is the first
\* account, in stored order, that is enabled, has a cookie and agrees with
\* the caller's cookie on every key field present in both, at least one
\* being present in both; with an empty cookie or no such account the call
\* finds no account.
C27_LookupNeedsSharedKeyField ==
    [][\A p \in Callers :
        LET ck == caller'[p].cookie
            input == ParseCookie(ck)
            good == {i \in 1..Len(accounts') :
                        ck # NoCookie /\ MatchesOnKeyField(accounts'[i], input)}
        IN  (caller[p].pc = "idle" /\ caller'[p].pc # "idle")
            => IF good = {}
               THEN caller'[p].username = "" /\ caller'[p].result = "OCRError"
               ELSE \E i \in good :
                       /\ \A j \in good : i <= j
                       /\ caller'[p].username = accounts'[i].username]_vars

(***************************************************************************)
(* Claims about the account list.                                          *)
(***************************************************************************)
\* C28: whatever add_account, update_account (by signin), enable_account,
\* disable_account and remove_account calls have run, in whatever order, no
\* two accounts of the in-memory list have the same username.  Each mutator
\* is one step: inside 'async with self._lock' nothing suspends, so no
\* other mutator runs between its lookup and its write.
C28_UsernamesUnique ==
    \A i, j \in 1..Len(accounts) :
        i # j => accounts[i].username # accounts[j].username

\* C28's case: alice was removed and added again (by add_account or by a
\* sign-in), so she stands once, behind bob.
C28_Witness ==
    /\ Len(accounts) = 2
    /\ accounts[1].username = "bob"
    /\ accounts[2].username = "alice"

\* An account of the in-memory list that config.yaml does not hold yet: its
\* add_account or update_account call has returned and the save it
\* scheduled is still asleep.
AddedNotSaved(u) ==
    /\ HasUser(accounts, u)
    /\ ~HasUser(file.accounts, u)
    /\ dirty
    /\ timer.pc = "sleeping"

\* C29: an account that is in the store, here one added and not yet saved,
\* leaves the in-memory list only in a remove_account call for its username
\* (or when the process is started again): no sign-in, disable, update,
\* save or cache reload removes it.
C29_OnlyRemoveAccountRemoves ==
    [][\A u \in Users :
        (AddedNotSaved(u) /\ ~HasUser(accounts', u))
            => \/ ops' = ops + 1 /\ Mutate(LAMBDA l : RemoveAccountFrom(l, u))
               \/ Restart]_vars

(***************************************************************************)
(* Claims about the errors of the pipeline.                                *)
(***************************************************************************)
\* C30: when the operation of a retry_with_token_refresh call failed for
\* the last time with an error that carries an upstream HTTP status, the
\* exception the wrapper raises to its caller carries the same status_code.
C30_WrapperKeepsUpstreamStatus ==
    (pipe.pc = "failed" /\ Top(pipe).last.status # 0)
        => pipe.exc.status = Top(pipe).last.status

(***************************************************************************)
(* Claims about the requests a recognition sends.                          *)
(***************************************************************************)
\* C31: one recognize_image call creates at most one remote chat: at most
\* one of its create-chat requests is answered with a chat, also when the
\* completion fails and the call tries again.
C31_OneChatPerRecognize ==
    hist.chats <= 1

(***************************************************************************)
(* Claims about the result of a recognition.                               *)
(***************************************************************************)
\* C32: a raw text of at most 10 characters that are all ASCII letters or
\* digits gives type captcha and the text in upper case, nothing else
\* changed; every other non-empty text gives type text.
C32_CaptchaOrText ==
    (strm.pc = "done" /\ strm.locals.full_response # << >>) =>
        LET t == strm.locals.full_response
            alnum == \A k \in 1..Len(t) : t[k] \in {"a", "Z", "7"}
        IN  /\ strm.out.kind = "return"
            /\ IF Len(t) <= 10 /\ alnum
               THEN /\ strm.out.type = "captcha"
                    /\ Len(strm.out.result) = Len(t)
                    /\ \A k \in 1..Len(t) :
                          strm.out.result[k] = (IF t[k] = "a" THEN "A" ELSE t[k])
               ELSE strm.out.type = "text"

\* C32's case: a text of exactly 10 letters and digits came out as a captcha.
C32_Witness ==
    /\ strm.pc = "done"
    /\ Len(strm.locals.full_response) = 10
    /\ strm.out.type = "captcha"
    /\ strm.out.result[1] = "A"

\* C33: the result of a text answer is a fixed point of the
\* normalization, holds no run of three newlines and neither starts nor
\* ends with whitespace.
C33_NormalizeIdempotent ==
    (strm.pc = "done" /\ strm.out.type = "text") =>
        LET r == strm.out.result
        IN  /\ Normalize(r) = r
            /\ \A k \in 1..(Len(r) - 2) : ~(r[k] = "nl" /\ r[k + 1] = "nl" /\ r[k + 2] = "nl")
            /\ r # << >> => (r[1] \notin {"sp", "nl"} /\ r[Len(r)] \notin {"sp", "nl"})

\* C33's case: a text with four newlines in a row between two letters
\* was normalized to two newlines.
C33_Witness ==
    /\ strm.pc = "done"
    /\ strm.out.type = "text"
    /\ strm.locals.full_response = <<"a", "nl", "nl", "nl", "nl", "Z">>
    /\ strm.out.result = <<"a", "nl", "nl", "Z">>

(***************************************************************************)
(* Claims about the natural order.                                         *)
(***************************************************************************)
\* Names x and y differ only in one run of digits, whose value is smaller in x.
SmallerRun(x, y) ==
    \E i \in 1..Len(x), j \in 1..Len(x), k \in 1..Len(y) :
        /\ i <= j /\ i <= k
        /\ \A m \in i..j : IsDigit(x[m])
        /\ \A m \in i..k : IsDigit(y[m])
        /\ SubSeq(x, 1, i - 1) = SubSeq(y, 1, i - 1)
        /\ SubSeq(x, j + 1, Len(x)) = SubSeq(y, k + 1, Len(y))
        /\ i > 1 => ~IsDigit(x[i - 1])
        /\ j < Len(x) => ~IsDigit(x[j + 1])
        /\ IntOf(SubSeq(x, i, j)) < IntOf(SubSeq(y, i, k))

\* C34: process_images puts any two image names in an order, with no
\* error of the comparison; names that differ only in a run of digits come
\* in the order of the run's value, and names that differ only in case
\* keep the order of the archive.
C34_NaturalOrderDefined ==
    (archive \in SortArchives /\ main.pc \notin {"idle", "scheduled"}) =>
        LET x == archive.names[1]
            y == archive.names[2]
        IN  /\ main.exc = "none"
            /\ image_files \in {<<x, y>>, <<y, x>>}
            /\ SmallerRun(x, y) => image_files = <<x, y>>
            /\ SmallerRun(y, x) => image_files = <<y, x>>
            /\ LowerText(x) = LowerText(y) => image_files = <<x, y>>

(***************************************************************************)
(* Claims about the content of a task.                                     *)
(***************************************************************************)
\* The text of content file stem as the request should give it: the file
\* is named by a result record and can be read.
Given(stem) ==
    /\ \E j \in 1..Len(disk.task.data.results) :
          disk.task.data.results[j].content_file = Txt(stem)
    /\ stem \in DOMAIN disk.content

\* C35: a content request answers an error for a task that is pending,
\* processing or failed; for a completed task it answers the texts of the
\* content files that can be read, in the order of their names, with a
\* blank line between two of them, and a file that cannot be read is left
\* out.
C35_ContentOnlyWhenCompleted ==
    (reply # NoReply /\ disk.task.state = "text") =>
        IF disk.task.data.status # "completed"
        THEN reply.code >= 400
        ELSE /\ reply.code = 200
             /\ reply.body =
                  CASE Given(Pad4(0)) /\ Given(Pad4(1)) ->
                          disk.content[Pad4(0)] \o <<"nl", "nl">> \o disk.content[Pad4(1)]
                    [] Given(Pad4(0)) /\ ~Given(Pad4(1)) -> disk.content[Pad4(0)]
                    [] ~Given(Pad4(0)) /\ Given(Pad4(1)) -> disk.content[Pad4(1)]
                    [] OTHER -> << >>

\* C35's case: a completed task with results 0001.txt and 0000.txt, in
\* that order, of which 0001.txt cannot be read: the answer is the text of
\* 0000.txt alone.
C35_Witness ==
    /\ reply.code = 200
    /\ disk.task.data.status = "completed"
    /\ Len(disk.task.data.results) = 2
    /\ disk.task.data.results[1].content_file = Txt(Pad4(1))
    /\ DOMAIN disk.content = {Pad4(0)}
    /\ reply.body = disk.content[Pad4(0)]

(***************************************************************************)
(* Claims about retry_with_token_refresh.                                  *)
(***************************************************************************)
\* The frame at depth n is popped: what lies below it is as before, and a
\* frame that takes its place is a new call.
FrameLeft(n) ==
    /\ Len(pipe'.stack) >= n - 1
    /\ SubSeq(pipe'.stack, 1, n - 1) = SubSeq(pipe.stack, 1, n - 1)
    /\ Len(pipe'.stack) >= n => pipe'.stack[n].calls = 0

\* A behaviour cut at the bound of the sign-ins of a behaviour.
SigninsSpent == pipe.pc = "signin" /\ nSignin >= MaxSignins

\* C36: a retry_with_token_refresh call calls its operation at most
\* MaxRetries times, sleeps only when another attempt follows, hands the
\* first result of its operation to its caller without another attempt,
\* and comes to an end with a result or an exception: no call stays on
\* the stack of the request for ever.
C36_RetryBoundedAndEnds ==
    /\ [](\A i \in 1..Len(pipe.stack) :
            /\ pipe.stack[i].calls <= MaxRetries
            /\ pipe.stack[i].sleeps <= pipe.stack[i].calls)
    /\ [](pipe.pc = "sleep" => Top(pipe).calls < MaxRetries)
    /\ [](pipe.pc \in {"returned", "failed"} => Top(pipe).sleeps < Top(pipe).calls)
    /\ [][(pipe.pc = "returned" /\ pipe' # pipe) => FrameLeft(Len(pipe.stack))]_vars
    /\ []<>(pipe.stack = << >> \/ SigninsSpent)

\* C36's case: a call fails after its third attempt, having slept twice.
C36_Witness ==
    /\ pipe.pc = "failed"
    /\ Top(pipe).calls = MaxRetries
    /\ Top(pipe).sleeps = MaxRetries - 1

\* C37: one recognize_image call sends at most 9 create-chat requests and
\* at most 3 completion requests; one process_image_url or
\* process_base64_image call sends at most 9 upload requests, 27
\* create-chat requests and 9 completion requests.
C37_AmplificationBounded ==
    /\ hist.rch <= 9
    /\ hist.rco <= 3
    /\ hist.up <= 9
    /\ hist.ch <= 27
    /\ hist.co <= 9

\* C37's case: a request that has sent all of these requests.
C37_Witness ==
    /\ hist.rch = 9
    /\ hist.rco = 3
    /\ hist.up = 9
    /\ hist.ch = 27
    /\ hist.co = 9

(***************************************************************************)
(* Claims about disabled accounts and accounts without a password.         *)
(***************************************************************************)
\* C38: a _get_valid_token call never resolves its cookie to an account
\* for which disable_account was called and which nothing has enabled
\* since: no such call gets that account's token or signs in for it.
C38_DisabledAccountNotServed ==
    [][\A p \in Callers :
        (caller[p].pc = "idle" /\ caller'[p].pc # "idle" /\ caller'[p].username # "")
            => ~off[caller'[p].username]]_vars

\* C39: a signin that succeeds stores no password: the account of its
\* username has afterwards the password it had before, and no password
\* when the username was not in the store before.
C39_SigninStoresNoPassword ==
    [][\A u \in Users :
        (/\ Len(signinLog') = Len(signinLog) + 1
         /\ signinLog'[Len(signinLog')].kind = "ok"
         /\ signinLog'[Len(signinLog')].username = u)
            => /\ HasUser(accounts', u)
               /\ AccountOf(accounts', u).password =
                    IF HasUser(accounts, u) THEN AccountOf(accounts, u).password
                    ELSE NoPassword]_vars

(***************************************************************************)
(* Claims about the end of a streamed response.                            *)
(***************************************************************************)
\* The index of the first finish fragment of a response, 0 without one.
FirstFinish(lines) ==
    IF \E i \in 1..Len(lines) : lines[i].kind = "finish"
    THEN CHOOSE i \in 1..Len(lines) :
            /\ lines[i].kind = "finish"
            /\ \A j \in 1..(i - 1) : lines[j].kind # "finish"
    ELSE 0

\* C40: reading stops at the first fragment with finish_reason "stop": the
\* raw text is the concatenation of the deltas of the fragments before it,
\* without the delta the finish fragment carries and without anything
\* that follows it.
C40_ResultIsDeltasBeforeFinish ==
    LET f == FirstFinish(strm.input)
        before == SubSeq(strm.input, 1, f - 1)
    IN  (StreamDone /\ f # 0 /\ "illtyped" \notin KindsOf(before))
            => /\ strm.locals.full_response = DeltasOf(before)
               /\ strm.rest = SubSeq(strm.input, f, Len(strm.input))
               /\ DeltasOf(before) # << >> => strm.out = Returned(DeltasOf(before))

\* C40's case: a delta, then a finish fragment that carries a delta of
\* its own, then another delta: the first delta alone is returned.
C40_Witness ==
    /\ StreamDone
    /\ Len(strm.input) = 3
    /\ strm.input[1].kind = "delta"
    /\ strm.input[2].kind = "finish"
    /\ strm.input[2].content # << >>
    /\ strm.input[3].kind = "delta"
    /\ strm.input[3].content # << >>
    /\ strm.out = Returned(strm.input[1].content)

====
